---- MODULE Spec2Model ----
(***************************************************************************)
(* Pull-through caching proxy of superfly/distribution.                    *)
(*                                                                         *)
(*   registry/proxy/proxyregistry.go   proxyingRegistry, the expiry        *)
(*                                     callbacks, setPublic, the auth      *)
(*                                     challenger                          *)
(*   registry/handlers/blob.go         blobHandler.GetBlob / DeleteBlob    *)
(*   registry/storage/blob_test.go     the local blob store as its tests   *)
(*                                     exercise it                         *)
(*                                                                         *)
(* The proxy blob store, the proxy manifest store, the TTL scheduler and   *)
(* the local (linked) blob store are not among the source files; they are  *)
(* modelled from the specification and from what the tests show.           *)
(***************************************************************************)
EXTENDS Integers, Sequences, FiniteSets, TLC

(***************************************************************************)
(* Bounds                                                                  *)
(***************************************************************************)
MaxLen == 2
MaxTime == 3
TTL == 2

Byte == {0, 1}
Repos == {"foo", "bar"}
Procs == {"p1", "p2"}
UploadIds == {1, 2}
UploadBytes == {0}

(***************************************************************************)
(* Content, digests and descriptors                                        *)
(***************************************************************************)
RECURSIVE SeqsUpTo(_)
SeqsUpTo(n) ==
  IF n = 0 THEN {<<>>}
  ELSE LET S == SeqsUpTo(n - 1)
       IN S \cup {Append(s, b) : s \in {t \in S : Len(t) = n - 1}, b \in Byte}

Contents == SeqsUpTo(MaxLen)

\* digest.FromBytes: a collision-free hash of the (bounded) content, computed
\* by folding the bytes: the content read as a binary numeral after a leading 1.
RECURSIVE FromBytes(_)
FromBytes(B) ==
  IF B = <<>> THEN 1 ELSE 2 * FromBytes(SubSeq(B, 1, Len(B) - 1)) + B[Len(B)]

digestSha256Empty == FromBytes(<<>>)

AllDigests == {FromBytes(B) : B \in Contents}

\* The content the upstream registry is asked for in the proxy behaviours.
ProxyContent == <<0, 1>>
ProxyDigests == {FromBytes(ProxyContent)}

\* Absent values and errors, of the type of the value they stand in for.
NoBlob == <<-1>>
ErrPathNotFound == <<-2>>
NoDesc == [digest |-> -1, size |-> -1, mediaType |-> "", annotations |-> {}]
ErrBlobUnknown == NoDesc
NoEntry == [kind |-> "none", expiry |-> -1, timer |-> -1]

\* distribution.Descriptor{Digest, Size, MediaType, Annotations}; the
\* annotations are a set of <<key, value>> pairs.
Descriptor(d, size) ==
  [digest |-> d, size |-> size, mediaType |-> "application/octet-stream",
   annotations |-> {}]

\* distribution.Descriptor{}: the zero value.
EmptyDescriptor ==
  [digest |-> 0, size |-> 0, mediaType |-> "", annotations |-> {}]

AnnotationKeys(desc) == {kv[1] : kv \in desc.annotations}

Key(repo, d) == <<repo, d>>
Keys == Repos \X AllDigests

\* The references the scheduler may hold: the canonical ones (repository name
\* and digest) and, read from a state file, one that names no digest.
NoDigest == 0
NonCanonical == {<<"foo", NoDigest>>}
Refs == Keys \cup NonCanonical
Canonical(ref) == ref \in Keys

(***************************************************************************)
(* State                                                                   *)
(***************************************************************************)
VARIABLES
  blobData,       \* storage driver: digest -> bytes at the blob data path
  layers,         \* <<repo, digest>> -> the repository's link to the blob with
                  \* its repository-scoped cached descriptor
  descSvc,        \* descriptorService: digest -> descriptor (with annotations)
  deleteEnabled,  \* the embedded registry was built with EnableDelete
  autoDiscovery,  \* ... with EnableAutomaticContentDiscovery
  uploads,        \* upload id -> upload session of the local blob store
  lastOp,         \* the last local blob store call and what it returned
  entries,        \* scheduler: key -> entry (kind, expiry, armed timer)
  snapshot,       \* /scheduler-state.json
  sched,          \* scheduler process: running, callbacks registered
  now,            \* wall clock
  cbs,            \* expiry callbacks in progress
  fired,          \* log of the timers that fired
  req,            \* the requests in progress, one per client process
  inflight,       \* single-flight map of each proxy blob store
  upstreamHas,    \* does the upstream registry hold the digest
  cm,             \* challenge manager: challenges known for remoteURL/v2/
  mutex,          \* remoteAuthChallenger's sync.Mutex: the holder, or "none"
  upstreamChallenge, \* what the upstream answers an unauthenticated ping with
  localManifests, \* local manifest store: set of <<repo, digest>>
  lastPut,        \* what the last manifest Put returned
  startup,        \* NewRegistryPullThroughCache and the scan it launches
  calls           \* the setPublic calls in progress, one per caller

storeVars == <<blobData, layers, descSvc, deleteEnabled, autoDiscovery>>
uploadVars == <<uploads, lastOp>>
schedVars == <<entries, snapshot, sched, now, cbs, fired>>
authVars == <<cm, mutex, upstreamChallenge>>
proxyVars == <<req, inflight, upstreamHas, authVars>>
manifestVars == <<localManifests, lastPut>>
publicVars == <<startup, calls>>
vars == <<storeVars, uploadVars, schedVars, proxyVars, manifestVars, publicVars>>

(***************************************************************************)
(* The local blob store (linkedBlobStore), as blob_test.go exercises it    *)
(***************************************************************************)
\* bs.Stat: ErrBlobUnknown unless the repository links the digest.  A
\* repository's link is independent of every other repository's link.
LocalStat(repo, d) ==
  IF layers[Key(repo, d)] = NoDesc THEN ErrBlobUnknown ELSE layers[Key(repo, d)]

\* bs.Open: Stat, then a reader on the blob data (NoBlob: ErrBlobUnknown).
LocalOpen(repo, d) ==
  IF LocalStat(repo, d) = ErrBlobUnknown THEN NoBlob
  ELSE IF blobData[d] = NoBlob THEN ErrPathNotFound
  ELSE blobData[d]

\* bs.Delete: fails when the registry was built without EnableDelete or the
\* repository does not link the digest.
CanDelete_Always(repo, d) == LocalStat(repo, d) # ErrBlobUnknown
CanDelete(repo, d) == deleteEnabled /\ LocalStat(repo, d) # ErrBlobUnknown

\* bs.Delete clears the repository reference and the descriptor caches; the
\* blob data and the other repositories' links stay.
LayersAfterDelete_AllRepos(repo, d) ==
  [k \in DOMAIN layers |-> IF k[2] = d THEN NoDesc ELSE layers[k]]
LayersAfterDelete(repo, d) == [layers EXCEPT ![Key(repo, d)] = NoDesc]
DescSvcAfterDelete(d) == [descSvc EXCEPT ![d] = NoDesc]

\* BlobWriter.Commit validates the written bytes against the digest of the
\* provided descriptor.
CommitValid_Unchecked(buf, d) == TRUE
CommitValid(buf, d) == FromBytes(buf) = d

\* Commit moves the upload to the blob data path, links the blob into the
\* repository and records the canonical descriptor.
DataAfterCommit_Truncated(buf, d) ==
  [blobData EXCEPT ![d] = SubSeq(buf, 1, Len(buf) - 1)]
DataAfterCommit(buf, d) == [blobData EXCEPT ![d] = buf]
LayersAfterCommit(repo, buf, d) ==
  [layers EXCEPT ![Key(repo, d)] = Descriptor(d, Len(buf))]
DescSvcAfterCommit(buf, d) ==
  IF descSvc[d] = NoDesc THEN [descSvc EXCEPT ![d] = Descriptor(d, Len(buf))]
  ELSE descSvc

\* Create(WithMount(d)): with automatic content discovery a blob that the
\* descriptor cache knows and the blob store holds is linked into the
\* repository (ErrBlobMounted carrying the blob's descriptor).
CanAutoMount(d) == autoDiscovery /\ descSvc[d] # NoDesc /\ blobData[d] # NoBlob
MountedDescriptor_Empty(d) == EmptyDescriptor
MountedDescriptor(d) == Descriptor(d, Len(blobData[d]))
LayersAfterMount(repo, d) ==
  [layers EXCEPT ![Key(repo, d)] = MountedDescriptor(d)]

\* Create(WithMountFrom(from@d)): the blob is linked when the source
\* repository holds it (ErrBlobMountedFrom carrying the source descriptor).
CanMountFrom_Always(from, d) == TRUE
CanMountFrom(from, d) == LocalStat(from, d) # ErrBlobUnknown
LayersAfterMountFrom(repo, from, d) ==
  [layers EXCEPT ![Key(repo, d)] = LocalStat(from, d)]

(***************************************************************************)
(* TTL expiration scheduler                                                *)
(***************************************************************************)
Entry(kind, expiry, timer) == [kind |-> kind, expiry |-> expiry, timer |-> timer]

\* AddBlob / AddManifest: insert or replace, expiry = now + ttl, (re)arm.
EntriesAfterAdd_KeepTimer(k, kind) ==
  [entries EXCEPT ![k] =
     Entry(kind, now + TTL, IF @ = NoEntry THEN now + TTL ELSE @.timer)]
EntriesAfterAdd(k, kind) ==
  [entries EXCEPT ![k] = Entry(kind, now + TTL, now + TTL)]

TimerDue(k) == entries[k] # NoEntry /\ entries[k].timer <= now

NoFire == [key |-> <<"none", 0>>, kind |-> "none", expiry |-> -1, at |-> -1]

FiredRecord(k) ==
  [key |-> k, kind |-> entries[k].kind, expiry |-> entries[k].expiry, at |-> now]

(***************************************************************************)
(* registry/proxy/proxyregistry.go                                         *)
(***************************************************************************)
\* remoteAuthChallenger.tryEstablishChallenges, run under the challenger's
\* mutex.  challenges is what r.cm.GetChallenges returns (cmErr: its error),
\* ping is what the unauthenticated GET of remoteURL/v2/ yields.
tryEstablishChallenges(challenges, cmErr, ping) ==
  IF cmErr THEN [err |-> TRUE, cm |-> challenges, pinged |-> FALSE]
  ELSE IF challenges # {} THEN [err |-> FALSE, cm |-> challenges, pinged |-> FALSE]
  ELSE IF ping.err THEN [err |-> TRUE, cm |-> challenges, pinged |-> TRUE]
  ELSE [err |-> FALSE, cm |-> ping.challenges, pinged |-> TRUE]

\* The challenges an upstream may ask for; "none": it needs no authorization.
UpstreamChallenges == {"none", "basic", "bearer"}

\* ping(r.cm, url, challengeHeader): the request fails, or the challenge
\* manager registers the challenges of the response's WWW-Authenticate
\* headers.
Pings ==
  {[err |-> TRUE, challenges |-> {}],
   [err |-> FALSE,
    challenges |-> IF upstreamChallenge = "none" THEN {} ELSE {upstreamChallenge}]}

\* proxyingRegistry.setPublic: read the descriptor, add the 'public'
\* annotation unless the key is there, write it back.  dsErr: the descriptor
\* service fails.
setPublic_AnyValue(svc, d, dsErr) ==
  LET desc == IF svc[d] = NoDesc THEN EmptyDescriptor ELSE svc[d]
  IN IF dsErr THEN [svc |-> svc, public |-> FALSE, err |-> TRUE]
     ELSE IF <<"public", "true">> \notin desc.annotations
     THEN [svc |-> [svc EXCEPT ![d] = [desc EXCEPT !.annotations = {<<"public", "true">>}]],
           public |-> TRUE, err |-> FALSE]
     ELSE [svc |-> svc, public |-> FALSE, err |-> FALSE]
setPublic(svc, d, dsErr) ==
  LET desc == IF svc[d] = NoDesc THEN EmptyDescriptor ELSE svc[d]
  IN IF dsErr THEN [svc |-> svc, public |-> FALSE, err |-> TRUE]
     ELSE IF "public" \notin AnnotationKeys(desc)
     THEN [svc |-> [svc EXCEPT ![d] =
                      [desc EXCEPT !.annotations = {<<"public", "true">>}]],
           public |-> TRUE, err |-> FALSE]
     ELSE [svc |-> svc, public |-> FALSE, err |-> FALSE]

\* proxyingRegistry.Repository: every call builds a new proxiedRepository with
\* a new proxyBlobStore around the shared scheduler, challenger and setPublic
\* callback.  The store built for the request of process p is identified by p.
Repository(p, name) == [store |-> p, repo |-> name]

IdleReq ==
  [pc |-> "idle", repo |-> "foo", dgst |-> 0, store |-> "foo", wbuf |-> <<>>,
   stream |-> <<>>, resp |-> <<>>, err |-> "none", up |-> FALSE,
   mounted |-> FALSE, fetched |-> FALSE, cached |-> FALSE]

Busy(p) == req[p].pc \notin {"idle", "done"}

\* The leader of an in-flight fetch of digest d.
Fetching(p, d) ==
  req[p].dgst = d /\ req[p].pc \in {"fetch", "stream", "setPublic", "schedule"}

\* The proxy blob store objects: the one Repository builds for the request
\* of each process, and one per repository that callers hold and share.
StoreIds == Procs \cup Repos

\* Is a fetch of the digest in flight in the store's single-flight map.
InFlight(store, d) == d \in inflight[store]

\* The single-flight leader completes: signal the waiters of this store and
\* digest, remove the map entry.  After a success the waiters retry the local
\* path; after a failure they observe the failed fetch.
FlightDone_LeaveWaiters(p, ok, me) == [req EXCEPT ![p] = me]
FlightDone(p, ok, me) ==
  [q \in Procs |->
     IF q = p THEN me
     ELSE IF req[q].pc = "wait" /\ req[q].store = req[p].store
             /\ req[q].dgst = req[p].dgst
     THEN IF ok THEN [req[q] EXCEPT !.pc = "serve"]
          ELSE [req[q] EXCEPT !.pc = "done", !.err = "FetchFailed"]
     ELSE req[q]]

InflightAfterDone(p) ==
  [inflight EXCEPT ![req[p].store] = @ \ {req[p].dgst}]

\* The bytes the upstream holds for a digest, and the same bytes damaged in
\* transit (the last byte flipped).
Content(d) == CHOOSE B \in Contents : FromBytes(B) = d
Corrupt(d) ==
  LET B == Content(d)
  IN IF B = <<>> THEN <<1>> ELSE [B EXCEPT ![Len(B)] = 1 - B[Len(B)]]

(***************************************************************************)
(* registry/handlers/blob.go: blobHandler.GetBlob                          *)
(***************************************************************************)
\* The digest is cached under another repository, marked public, and absent
\* from this repository.
CachedElsewhere(repo, d) ==
  /\ LocalStat(repo, d) = ErrBlobUnknown
  /\ blobData[d] # NoBlob
  /\ <<"public", "true">> \in descSvc[d].annotations
  /\ \E o \in Repos \ {repo} : LocalStat(o, d) # ErrBlobUnknown

\* The request of process p reaches GetBlob; bh.Repository.Blobs(bh) is the
\* proxy blob store of the repository built for this request.  The request
\* remembers (cached) whether it found the digest cached elsewhere.
GetBlobStart(p, repo, d) ==
  /\ req[p].pc = "idle"
  /\ req' = [req EXCEPT ![p] =
       [IdleReq EXCEPT !.pc = "stat", !.repo = Repository(p, repo).repo,
                       !.store = Repository(p, repo).store, !.dgst = d,
                       !.cached = CachedElsewhere(repo, d)]]
  /\ UNCHANGED <<storeVars, uploadVars, schedVars, inflight, upstreamHas, authVars,
                 manifestVars,
                 publicVars>>

\* GetBlob after blobs.Stat returned: serve, try the auto-mount, or fail.
GetBlobAfterStat(r, stat) ==
  IF stat = "ok" THEN [r EXCEPT !.pc = "serve"]
  ELSE IF stat = "ErrBlobUnknown" THEN [r EXCEPT !.pc = "create"]
  ELSE [r EXCEPT !.pc = "done", !.err = "Unknown"]

\* GetBlob after blobs.Create(WithMount(digest), WithoutUpload) returned.
GetBlobAfterCreate_Serve(r, create) ==
  IF create \in {"ErrBlobMounted", "none"} THEN [r EXCEPT !.pc = "serve", !.mounted = TRUE]
  ELSE [r EXCEPT !.pc = "done", !.err = "BlobUnknown"]
GetBlobAfterCreate(r, create) ==
  IF create = "ErrBlobMounted" THEN [r EXCEPT !.pc = "serve", !.mounted = TRUE]
  ELSE [r EXCEPT !.pc = "done", !.err = "BlobUnknown"]

\* proxyBlobStore.Stat: the local Stat if present; else establish the
\* challenges and ask the remote.
GetBlobStat(p) ==
  /\ req[p].pc = "stat"
  /\ LET r == req[p] IN
     IF LocalStat(r.repo, r.dgst) # ErrBlobUnknown
     THEN /\ req' = [req EXCEPT ![p] = GetBlobAfterStat(r, "ok")]
          /\ cm' = cm
     ELSE \E cmErr \in BOOLEAN, ping \in Pings, remoteErr \in BOOLEAN :
            LET c == tryEstablishChallenges(cm, cmErr, ping)
                u == [r EXCEPT !.up = TRUE]
            IN /\ cm' = c.cm
               /\ req' = [req EXCEPT ![p] =
                    IF c.err \/ remoteErr THEN GetBlobAfterStat(u, "error")
                    ELSE IF upstreamHas[r.dgst] THEN GetBlobAfterStat(u, "ok")
                    ELSE GetBlobAfterStat(u, "ErrBlobUnknown")]
  /\ UNCHANGED <<storeVars, uploadVars, schedVars, inflight, upstreamHas,
                 mutex, upstreamChallenge, manifestVars,
                 publicVars>>

\* proxyBlobStore.Create delegates to the local store, which mounts the blob,
\* returns nothing (WithoutUpload) or fails with another error.
GetBlobCreate(p) ==
  /\ req[p].pc = "create"
  /\ LET r == req[p] IN
     \E createErr \in BOOLEAN :
       IF createErr
       THEN /\ layers' = layers
            /\ req' = [req EXCEPT ![p] = GetBlobAfterCreate(r, "error")]
       ELSE IF CanAutoMount(r.dgst)
       THEN /\ layers' = LayersAfterMount(r.repo, r.dgst)
            /\ req' = [req EXCEPT ![p] = GetBlobAfterCreate(r, "ErrBlobMounted")]
       ELSE /\ layers' = layers
            /\ req' = [req EXCEPT ![p] = GetBlobAfterCreate(r, "none")]
  /\ UNCHANGED <<blobData, descSvc, deleteEnabled, autoDiscovery, uploadVars,
                 schedVars, inflight, upstreamHas, authVars, manifestVars,
                 publicVars>>

(***************************************************************************)
(* proxyBlobStore.ServeBlob                                                *)
(***************************************************************************)
\* A caller that shares a proxy blob store obtained earlier (one Repository
\* call for the repository) calls ServeBlob on it directly.
ServeBlobDirect(p, repo, d) ==
  /\ req[p].pc = "idle"
  /\ req' = [req EXCEPT ![p] =
       [IdleReq EXCEPT !.pc = "serve", !.repo = repo, !.store = repo, !.dgst = d]]
  /\ UNCHANGED <<storeVars, uploadVars, schedVars, inflight, upstreamHas, authVars,
                 manifestVars,
                 publicVars>>

\* Step 1: local has the blob: serve it and refresh the TTL of repo@digest.
ServeBlobLocal(p) ==
  /\ req[p].pc = "serve"
  /\ LET r == req[p] IN
     /\ LocalStat(r.repo, r.dgst) # ErrBlobUnknown
     /\ IF blobData[r.dgst] # NoBlob
        THEN /\ req' = [req EXCEPT ![p].pc = "done",
                                   ![p].resp = LocalOpen(r.repo, r.dgst)]
             /\ entries' = EntriesAfterAdd(Key(r.repo, r.dgst), "blob")
        ELSE /\ req' = [req EXCEPT ![p].pc = "done", ![p].err = "Unknown"]
             /\ entries' = entries
  /\ UNCHANGED <<storeVars, uploadVars, snapshot, sched, now, cbs, fired,
                 inflight, upstreamHas, authVars, manifestVars,
                 publicVars>>

\* Step 2: local miss: join the single-flight map of this store, as the
\* leader of the fetch or as a waiter.
ServeBlobMiss(p) ==
  /\ req[p].pc = "serve"
  /\ LET r == req[p] IN
     /\ LocalStat(r.repo, r.dgst) = ErrBlobUnknown
     /\ IF InFlight(r.store, r.dgst)
        THEN /\ req' = [req EXCEPT ![p].pc = "wait"]
             /\ inflight' = inflight
        ELSE /\ req' = [req EXCEPT ![p].pc = "fetch"]
             /\ inflight' = [inflight EXCEPT ![r.store] = @ \cup {r.dgst}]
  /\ UNCHANGED <<storeVars, uploadVars, schedVars, upstreamHas, authVars, manifestVars,
                 publicVars>>

\* Step 3: open a reader on the remote and create the local write.
FetchOpen(p) ==
  /\ req[p].pc = "fetch"
  /\ LET r == [req[p] EXCEPT !.up = TRUE, !.fetched = TRUE] IN
     IF upstreamHas[r.dgst]
     THEN /\ \E s \in {Content(r.dgst), Corrupt(r.dgst)} :
               req' = [req EXCEPT ![p] = [r EXCEPT !.pc = "stream", !.stream = s]]
          /\ inflight' = inflight
     ELSE /\ req' = FlightDone(p, FALSE,
                      [r EXCEPT !.pc = "done", !.err = "BlobUnknown"])
          /\ inflight' = InflightAfterDone(p)
  /\ UNCHANGED <<storeVars, uploadVars, schedVars, upstreamHas, authVars, manifestVars,
                 publicVars>>

\* The tee: the next byte goes to the response and to the local writer.
StreamByte(p) ==
  /\ req[p].pc = "stream"
  /\ Len(req[p].wbuf) < Len(req[p].stream)
  /\ LET b == req[p].stream[Len(req[p].wbuf) + 1] IN
     req' = [req EXCEPT ![p].wbuf = Append(@, b), ![p].resp = Append(@, b)]
  /\ UNCHANGED <<storeVars, uploadVars, schedVars, inflight, upstreamHas, authVars,
                 manifestVars,
                 publicVars>>

\* Step 5: remote error, client disconnect or cancellation mid-stream: the
\* local write is cancelled.
StreamAbort_Commit(p) ==
  /\ req[p].pc = "stream"
  /\ req' = FlightDone(p, FALSE,
              [req[p] EXCEPT !.pc = "done", !.err = "Aborted", !.wbuf = <<>>])
  /\ inflight' = InflightAfterDone(p)
  /\ blobData' = DataAfterCommit(req[p].wbuf, req[p].dgst)
  /\ layers' = LayersAfterCommit(req[p].repo, req[p].wbuf, req[p].dgst)
  /\ UNCHANGED <<descSvc, deleteEnabled, autoDiscovery, uploadVars, schedVars,
                 upstreamHas, authVars, manifestVars,
                 publicVars>>
StreamAbort(p) ==
  /\ req[p].pc = "stream"
  /\ req' = FlightDone(p, FALSE,
              [req[p] EXCEPT !.pc = "done", !.err = "Aborted", !.wbuf = <<>>])
  /\ inflight' = InflightAfterDone(p)
  /\ UNCHANGED <<storeVars, uploadVars, schedVars, upstreamHas, authVars, manifestVars,
                 publicVars>>

\* Steps 4 and 5 at EOF: commit when the digest matches, cancel otherwise.
StreamEOF(p) ==
  /\ req[p].pc = "stream"
  /\ req[p].wbuf = req[p].stream
  /\ LET r == req[p] IN
     IF CommitValid(r.wbuf, r.dgst)
     THEN /\ blobData' = DataAfterCommit(r.wbuf, r.dgst)
          /\ layers' = LayersAfterCommit(r.repo, r.wbuf, r.dgst)
          /\ descSvc' = DescSvcAfterCommit(r.wbuf, r.dgst)
          /\ req' = [req EXCEPT ![p].pc = "setPublic", ![p].wbuf = <<>>]
          /\ inflight' = inflight
     ELSE /\ req' = FlightDone(p, FALSE,
                      [r EXCEPT !.pc = "done", !.err = "DigestInvalid",
                                !.wbuf = <<>>])
          /\ inflight' = InflightAfterDone(p)
          /\ UNCHANGED <<blobData, layers, descSvc>>
  /\ UNCHANGED <<deleteEnabled, autoDiscovery, uploadVars, schedVars,
                 upstreamHas, authVars, manifestVars,
                 publicVars>>

\* pbs.setPublic(digest): proxyingRegistry.setBlobPublic logs the outcome.
SetPublicStep(p) ==
  /\ req[p].pc = "setPublic"
  /\ \E dsErr \in BOOLEAN :
       descSvc' = setPublic(descSvc, req[p].dgst, dsErr).svc
  /\ req' = [req EXCEPT ![p].pc = "schedule"]
  /\ UNCHANGED <<blobData, layers, deleteEnabled, autoDiscovery, uploadVars,
                 schedVars, inflight, upstreamHas, authVars, manifestVars,
                 publicVars>>

\* Schedule the blob TTL; the fetch is complete.
ScheduleStep(p) ==
  /\ req[p].pc = "schedule"
  /\ entries' = EntriesAfterAdd(Key(req[p].repo, req[p].dgst), "blob")
  /\ req' = FlightDone(p, TRUE, [req[p] EXCEPT !.pc = "done"])
  /\ inflight' = InflightAfterDone(p)
  /\ UNCHANGED <<storeVars, uploadVars, snapshot, sched, now, cbs, fired,
                 upstreamHas, authVars, manifestVars,
                 publicVars>>

\* The response is written; the process may issue its next request.
Finish(p) ==
  /\ req[p].pc = "done"
  /\ req' = [req EXCEPT ![p] = IdleReq]
  /\ UNCHANGED <<storeVars, uploadVars, schedVars, inflight, upstreamHas, authVars,
                 manifestVars,
                 publicVars>>

(***************************************************************************)
(* Expiry: the scheduler's timers and the callbacks registered by          *)
(* NewRegistryPullThroughCache                                             *)
(***************************************************************************)
\* storage.Vacuum.RemoveBlob: remove the blob data of the digest.
RemoveBlob(d) == [blobData EXCEPT ![d] = NoBlob]

\* OnBlobExpire after blobs.Delete returned: RemoveBlob only after a
\* successful delete, else the error is returned.
OnBlobExpireAfterDelete_Always(ok) == "blobVacuum"
OnBlobExpireAfterDelete(ok) == IF ok THEN "blobVacuum" ELSE "none"

\* The callback the scheduler invokes for an entry of the kind.
CallbackFor(kind) == IF kind = "blob" THEN "blobDelete" ELSE "manifestDelete"

Tick ==
  /\ now < MaxTime
  /\ now' = now + 1
  /\ UNCHANGED <<storeVars, uploadVars, entries, snapshot, sched, cbs, fired,
                 proxyVars, manifestVars,
                 publicVars>>

\* The entry map once the firing timer's handler has released the mutex.
EntriesAfterFire_Keep(k) == entries
EntriesAfterFire(k) == [entries EXCEPT ![k] = NoEntry]

\* A timer fires: under the mutex the entry is removed, then the registered
\* callback is invoked.
TimerFire(k) ==
  /\ sched.running
  /\ TimerDue(k)
  /\ cbs[k] = "none"
  /\ fired' = FiredRecord(k)
  /\ entries' = EntriesAfterFire(k)
  /\ cbs' = [cbs EXCEPT ![k] =
       IF sched.callbacks THEN CallbackFor(entries[k].kind) ELSE "none"]
  /\ UNCHANGED <<storeVars, uploadVars, snapshot, sched, now, proxyVars,
                 manifestVars,
                 publicVars>>

\* OnBlobExpire: a reference that is not canonical is an error; otherwise
\* registry.Repository(ctx, r), then blobs.Delete(ctx, digest).
OnBlobExpireDelete(k) ==
  /\ cbs[k] = "blobDelete"
  /\ IF ~Canonical(k)
     THEN /\ cbs' = [cbs EXCEPT ![k] = "none"]
          /\ UNCHANGED <<layers, descSvc>>
     ELSE /\ IF CanDelete(k[1], k[2])
             THEN /\ layers' = LayersAfterDelete(k[1], k[2])
                  /\ descSvc' = DescSvcAfterDelete(k[2])
             ELSE UNCHANGED <<layers, descSvc>>
          /\ cbs' = [cbs EXCEPT ![k] = OnBlobExpireAfterDelete(CanDelete(k[1], k[2]))]
  /\ UNCHANGED <<blobData, deleteEnabled, autoDiscovery, uploadVars, entries,
                 snapshot, sched, now, fired, proxyVars, manifestVars,
                 publicVars>>

\* OnBlobExpire: v.RemoveBlob(digest).
OnBlobExpireVacuum(k) ==
  /\ cbs[k] = "blobVacuum"
  /\ blobData' = RemoveBlob(k[2])
  /\ cbs' = [cbs EXCEPT ![k] = "none"]
  /\ UNCHANGED <<layers, descSvc, deleteEnabled, autoDiscovery, uploadVars,
                 entries, snapshot, sched, now, fired, proxyVars, manifestVars,
                 publicVars>>

(***************************************************************************)
(* registry/handlers/blob.go: blobHandler.DeleteBlob                       *)
(***************************************************************************)
DeleteBlob(repo, d) ==
  /\ CanDelete(repo, d)
  /\ layers' = LayersAfterDelete(repo, d)
  /\ descSvc' = DescSvcAfterDelete(d)
  /\ UNCHANGED <<blobData, deleteEnabled, autoDiscovery, uploadVars, schedVars,
                 proxyVars, manifestVars,
                 publicVars>>

(***************************************************************************)
(* The proxy serving blobs                                                 *)
(***************************************************************************)
NoUploads ==
  [id \in UploadIds |-> [state |-> "unused", repo |-> "foo", buf |-> <<>>]]

InitStore ==
  /\ blobData = [d \in AllDigests |-> NoBlob]
  /\ layers = [k \in Keys |-> NoDesc]
  /\ descSvc = [d \in AllDigests |-> NoDesc]
  /\ uploads = NoUploads
  /\ lastOp = [op |-> "none"]

InitSched ==
  /\ entries = [k \in Refs |-> NoEntry]
  /\ snapshot = [k \in Refs |-> NoEntry]
  /\ sched = [running |-> TRUE, callbacks |-> TRUE]
  /\ now = 0
  /\ cbs = [k \in Refs |-> "none"]
  /\ fired = NoFire

InitProxy ==
  /\ req = [p \in Procs |-> IdleReq]
  /\ inflight = [s \in StoreIds |-> {}]
  /\ cm = {}
  /\ mutex = "none"

\* The callers of setPublic: the startup scan (setBlobsPublic) and the
\* post-commit callback handed to the blob store (setBlobPublic).
SetPublicCallers == {"scan", "commit"}

\* No setPublic call in progress.
NoCall == [pc |-> "idle", dgst |-> 0, desc |-> NoDesc, public |-> FALSE,
           err |-> FALSE]

\* A proxy whose constructor has returned and whose startup scan is over.
InitPublic ==
  /\ startup = [pc |-> "returned", scan |-> "done", todo |-> {}]
  /\ calls = [c \in SetPublicCallers |-> NoCall]

InitManifests ==
  /\ localManifests = {}
  /\ lastPut = "none"

Init ==
  /\ InitStore
  /\ InitSched
  /\ InitProxy
  /\ InitManifests
  /\ InitPublic
  /\ deleteEnabled = TRUE
  /\ autoDiscovery = TRUE
  /\ upstreamHas \in [ProxyDigests -> BOOLEAN]
  /\ upstreamChallenge \in {"none", "bearer"}

\* Two clients against the proxy; no TTL expires during the requests.
Next ==
  \/ \E p \in Procs, repo \in Repos, d \in ProxyDigests : GetBlobStart(p, repo, d)
  \/ \E p \in Procs, repo \in Repos, d \in ProxyDigests : ServeBlobDirect(p, repo, d)
  \/ \E p \in Procs : GetBlobStat(p)
  \/ \E p \in Procs : GetBlobCreate(p)
  \/ \E p \in Procs : ServeBlobLocal(p)
  \/ \E p \in Procs : ServeBlobMiss(p)
  \/ \E p \in Procs : FetchOpen(p)
  \/ \E p \in Procs : StreamByte(p)
  \/ \E p \in Procs : StreamAbort(p)
  \/ \E p \in Procs : StreamEOF(p)
  \/ \E p \in Procs : SetPublicStep(p)
  \/ \E p \in Procs : ScheduleStep(p)
  \/ \E p \in Procs : Finish(p)
  \/ \E repo \in Repos, d \in ProxyDigests : DeleteBlob(repo, d)

Spec == Init /\ [][Next]_vars

\* One client, the clock and the scheduler's timers and expiry callbacks.
InitExpiry ==
  /\ InitStore
  /\ InitSched
  /\ InitProxy
  /\ InitManifests
  /\ InitPublic
  /\ deleteEnabled \in BOOLEAN
  /\ autoDiscovery = TRUE
  /\ upstreamHas \in [ProxyDigests -> BOOLEAN]
  /\ upstreamChallenge \in {"none", "bearer"}

Client == {"p1"}

NextExpiry ==
  \/ \E p \in Client, repo \in Repos, d \in ProxyDigests : GetBlobStart(p, repo, d)
  \/ \E p \in Client : GetBlobStat(p)
  \/ \E p \in Client : GetBlobCreate(p)
  \/ \E p \in Client : ServeBlobLocal(p)
  \/ \E p \in Client : ServeBlobMiss(p)
  \/ \E p \in Client : FetchOpen(p)
  \/ \E p \in Client : StreamByte(p)
  \/ \E p \in Client : StreamAbort(p)
  \/ \E p \in Client : StreamEOF(p)
  \/ \E p \in Client : SetPublicStep(p)
  \/ \E p \in Client : ScheduleStep(p)
  \/ \E p \in Client : Finish(p)
  \/ \E k \in Keys : TimerFire(k)
  \/ \E k \in Keys : OnBlobExpireDelete(k)
  \/ \E k \in Keys : OnBlobExpireVacuum(k)
  \/ Tick

SpecExpiry == InitExpiry /\ [][NextExpiry]_vars

(***************************************************************************)
(* Proxy manifest store                                                    *)
(***************************************************************************)
ManifestContent == <<1>>
ManifestDigests == {FromBytes(ManifestContent)}
ManifestKeys == Repos \X ManifestDigests
BlobKeys == Repos \X ProxyDigests

\* Get: a local hit refreshes the manifest TTL; a miss fetches the manifest
\* from the remote, verifies its digest, writes it into the local manifest
\* store and schedules the manifest TTL.
ManifestGet(repo, m) ==
  /\ sched.running
  /\ \E payload \in {Content(m), Corrupt(m)} :
       IF Key(repo, m) \in localManifests
       THEN /\ entries' = EntriesAfterAdd(Key(repo, m), "manifest")
            /\ UNCHANGED localManifests
       ELSE IF FromBytes(payload) = m
       THEN /\ localManifests' = localManifests \cup {Key(repo, m)}
            /\ entries' = EntriesAfterAdd(Key(repo, m), "manifest")
       ELSE UNCHANGED <<localManifests, entries>>
  /\ lastPut' = "none"
  /\ UNCHANGED <<storeVars, uploadVars, snapshot, sched, now, cbs, fired,
                 proxyVars,
                 publicVars>>

\* What Put returns, and the local manifest store after it: the proxy is
\* read-only for manifests.
PutResult == "ErrUnsupported"
ManifestsAfterPut_Stored(repo, m) == localManifests \cup {Key(repo, m)}
ManifestsAfterPut(repo, m) == localManifests

\* Put(ctx, manifest, options...)
ManifestPut(repo, m, options) ==
  /\ sched.running
  /\ lastPut' = PutResult
  /\ localManifests' = ManifestsAfterPut(repo, m)
  /\ UNCHANGED <<storeVars, uploadVars, schedVars, proxyVars,
                 publicVars>>

\* Delete: deletes locally; the upstream is not touched.
ManifestDelete(repo, m) ==
  /\ sched.running
  /\ Key(repo, m) \in localManifests
  /\ localManifests' = localManifests \ {Key(repo, m)}
  /\ lastPut' = "none"
  /\ UNCHANGED <<storeVars, uploadVars, schedVars, proxyVars,
                 publicVars>>

\* OnManifestExpire: registry.Repository, repo.Manifests, manifests.Delete of
\* the digest; nothing else is removed.
OnManifestExpire(k) ==
  /\ cbs[k] = "manifestDelete"
  /\ localManifests' = IF Canonical(k) THEN localManifests \ {k} ELSE localManifests
  /\ cbs' = [cbs EXCEPT ![k] = "none"]
  /\ UNCHANGED <<storeVars, uploadVars, entries, snapshot, sched, now, fired,
                 proxyVars, lastPut,
                 publicVars>>

(***************************************************************************)
(* Scheduler operations and the restart of the proxy                       *)
(***************************************************************************)
\* scheduler.AddBlob(ref, ttl), as the proxy blob store calls it.
AddBlob(k) ==
  /\ sched.running
  /\ entries' = EntriesAfterAdd(k, "blob")
  /\ UNCHANGED <<storeVars, uploadVars, snapshot, sched, now, cbs, fired,
                 proxyVars, manifestVars,
                 publicVars>>

\* scheduler.AddManifest(ref, ttl), as the proxy manifest store calls it.
AddManifest(k) ==
  /\ sched.running
  /\ entries' = EntriesAfterAdd(k, "manifest")
  /\ UNCHANGED <<storeVars, uploadVars, snapshot, sched, now, cbs, fired,
                 proxyVars, manifestVars,
                 publicVars>>

\* The periodic flusher writes the snapshot while the state is dirty.
Flush ==
  /\ sched.running
  /\ snapshot # entries
  /\ snapshot' = [k \in Refs |->
       IF entries[k] = NoEntry THEN NoEntry
       ELSE Entry(entries[k].kind, entries[k].expiry, entries[k].expiry)]
  /\ UNCHANGED <<storeVars, uploadVars, entries, sched, now, cbs, fired,
                 proxyVars, manifestVars,
                 publicVars>>

\* Stop(): stop all timers, flush the final snapshot.  The process ends and
\* its in-memory state is gone.
Stop ==
  /\ sched.running
  /\ \A k \in Refs : cbs[k] = "none"
  /\ snapshot' = [k \in Refs |->
       IF entries[k] = NoEntry THEN NoEntry
       ELSE Entry(entries[k].kind, entries[k].expiry, entries[k].expiry)]
  /\ entries' = [k \in Refs |-> NoEntry]
  /\ sched' = [running |-> FALSE, callbacks |-> FALSE]
  /\ UNCHANGED <<storeVars, uploadVars, now, cbs, fired, proxyVars, manifestVars,
                 publicVars>>

\* The delay Start() arms an entry of the snapshot with: zero when the expiry
\* has passed, else expiry - now.
StartDelay(expiry) == IF expiry <= now THEN 0 ELSE expiry - now

\* Start(): load the snapshot and arm every entry.
EntriesAfterStart ==
  [k \in Refs |->
     IF snapshot[k] = NoEntry THEN NoEntry
     ELSE Entry(snapshot[k].kind, snapshot[k].expiry,
                now + StartDelay(snapshot[k].expiry))]

\* NewRegistryPullThroughCache: s.OnBlobExpire(...) and s.OnManifestExpire(...)
\* register the callbacks on the new scheduler ...
RegisterCallbacks ==
  /\ ~sched.running
  /\ ~sched.callbacks
  /\ sched' = [sched EXCEPT !.callbacks = TRUE]
  /\ UNCHANGED <<storeVars, uploadVars, entries, snapshot, now, cbs, fired,
                 proxyVars, manifestVars,
                 publicVars>>

\* Start() before the callbacks are registered.
StartAllowed_Unregistered == TRUE

\* ... and only then is s.Start() called.
StartAllowed == sched.callbacks

SchedulerStart ==
  /\ ~sched.running
  /\ StartAllowed
  /\ entries' = EntriesAfterStart
  /\ sched' = [sched EXCEPT !.running = TRUE]
  /\ UNCHANGED <<storeVars, uploadVars, snapshot, now, cbs, fired, proxyVars,
                 manifestVars,
                 publicVars>>

\* The proxy with content cached before: the blob linked into both
\* repositories.
InitSchedSpec ==
  /\ blobData = [d \in AllDigests |->
       IF d \in ProxyDigests THEN Content(d) ELSE NoBlob]
  /\ layers = [k \in Keys |->
       IF k \in BlobKeys THEN Descriptor(k[2], Len(Content(k[2]))) ELSE NoDesc]
  /\ descSvc = [d \in AllDigests |->
       IF d \in ProxyDigests THEN Descriptor(d, Len(Content(d))) ELSE NoDesc]
  /\ uploads = NoUploads
  /\ lastOp = [op |-> "none"]
  /\ InitSched
  /\ InitProxy
  /\ InitManifests
  /\ InitPublic
  /\ deleteEnabled = TRUE
  /\ autoDiscovery = TRUE
  /\ upstreamHas = [d \in ProxyDigests |-> TRUE]
  /\ upstreamChallenge = "bearer"

NextSched ==
  \/ \E k \in BlobKeys : AddBlob(k)
  \/ \E k \in {Key("foo", m) : m \in ManifestDigests} : AddManifest(k)
  \/ \E k \in Keys : TimerFire(k)
  \/ \E k \in Keys : OnBlobExpireDelete(k)
  \/ \E k \in Keys : OnBlobExpireVacuum(k)
  \/ \E k \in Keys : OnManifestExpire(k)
  \/ Tick
  \/ Flush
  \/ Stop
  \/ RegisterCallbacks
  \/ SchedulerStart

SpecSched == InitSchedSpec /\ [][NextSched]_vars

\* The proxy manifest store with the scheduler's timers.
NextManifest ==
  \/ \E repo \in Repos, m \in ManifestDigests : ManifestGet(repo, m)
  \/ \E repo \in Repos, m \in ManifestDigests, o \in BOOLEAN : ManifestPut(repo, m, o)
  \/ \E repo \in Repos, m \in ManifestDigests : ManifestDelete(repo, m)
  \/ \E k \in Keys : TimerFire(k)
  \/ \E k \in Keys : OnManifestExpire(k)
  \/ Tick

SpecManifest == Init /\ [][NextManifest]_vars

(***************************************************************************)
(* remoteAuthChallenger.tryEstablishChallenges, statement by statement,    *)
(* called concurrently on the one challenger that Repository hands to the  *)
(* stores of every repository (registry/proxy/proxyregistry.go)            *)
(***************************************************************************)
\* A proxy store of some repository calls tryEstablishChallenges.
ChallengerCall(p, repo) ==
  /\ req[p].pc = "idle"
  /\ req' = [req EXCEPT ![p] = [IdleReq EXCEPT !.pc = "cmLock", !.repo = repo]]
  /\ UNCHANGED <<storeVars, uploadVars, schedVars, inflight, upstreamHas,
                 authVars, manifestVars,
                 publicVars>>

\* r.Lock(): the caller blocks until the mutex is free.
ChallengerLock_NoMutex(p) ==
  /\ req[p].pc = "cmLock"
  /\ mutex' = p
  /\ req' = [req EXCEPT ![p].pc = "cmGet"]
  /\ UNCHANGED <<storeVars, uploadVars, schedVars, inflight, upstreamHas, cm,
                 upstreamChallenge, manifestVars,
                 publicVars>>
ChallengerLock(p) ==
  /\ req[p].pc = "cmLock"
  /\ mutex = "none"
  /\ mutex' = p
  /\ req' = [req EXCEPT ![p].pc = "cmGet"]
  /\ UNCHANGED <<storeVars, uploadVars, schedVars, inflight, upstreamHas, cm,
                 upstreamChallenge, manifestVars,
                 publicVars>>

\* r.cm.GetChallenges(remoteURL): return its error, or nil when challenges
\* are known; otherwise go on to ping the upstream.
ChallengerGet(p) ==
  /\ req[p].pc = "cmGet"
  /\ \E cmErr \in BOOLEAN :
       LET c == tryEstablishChallenges(cm, cmErr, [err |-> FALSE, challenges |-> {}])
       IN req' = [req EXCEPT ![p] =
            IF c.pinged THEN [@ EXCEPT !.pc = "cmPing", !.up = TRUE]
            ELSE [@ EXCEPT !.pc = "cmRet",
                           !.err = IF c.err THEN "cmError" ELSE "none"]]
  /\ UNCHANGED <<storeVars, uploadVars, schedVars, inflight, upstreamHas,
                 authVars, manifestVars,
                 publicVars>>

\* ping(r.cm, remoteURL, challengeHeader) returns.
ChallengerPing(p) ==
  /\ req[p].pc = "cmPing"
  /\ \E ping \in Pings :
       LET c == tryEstablishChallenges(cm, FALSE, ping)
       IN /\ cm' = c.cm
          /\ req' = [req EXCEPT ![p].pc = "cmRet",
                                ![p].err = IF c.err THEN "pingError" ELSE "none"]
  /\ UNCHANGED <<storeVars, uploadVars, schedVars, inflight, upstreamHas,
                 mutex, upstreamChallenge, manifestVars,
                 publicVars>>

\* defer r.Unlock(), and the call returns.
ChallengerUnlock_OnSuccess(p) ==
  /\ req[p].pc = "cmRet"
  /\ mutex' = IF req[p].err = "none" THEN "none" ELSE mutex
  /\ req' = [req EXCEPT ![p].pc = "done"]
  /\ UNCHANGED <<storeVars, uploadVars, schedVars, inflight, upstreamHas, cm,
                 upstreamChallenge, manifestVars,
                 publicVars>>
ChallengerUnlock(p) ==
  /\ req[p].pc = "cmRet"
  /\ mutex' = "none"
  /\ req' = [req EXCEPT ![p].pc = "done"]
  /\ UNCHANGED <<storeVars, uploadVars, schedVars, inflight, upstreamHas, cm,
                 upstreamChallenge, manifestVars,
                 publicVars>>

\* The upstream starts to ask for another challenge.
UpstreamChanges ==
  /\ \E c \in UpstreamChallenges \ {upstreamChallenge} : upstreamChallenge' = c
  /\ UNCHANGED <<storeVars, uploadVars, schedVars, req, inflight, upstreamHas,
                 cm, mutex, manifestVars,
                 publicVars>>

InitAuth ==
  /\ InitStore
  /\ InitSched
  /\ InitManifests
  /\ InitPublic
  /\ req = [p \in Procs |-> IdleReq]
  /\ inflight = [s \in StoreIds |-> {}]
  /\ cm = {}
  /\ mutex = "none"
  /\ upstreamChallenge \in UpstreamChallenges
  /\ deleteEnabled = TRUE
  /\ autoDiscovery = TRUE
  /\ upstreamHas = [d \in ProxyDigests |-> TRUE]

NextAuth ==
  \/ \E p \in Procs, repo \in Repos : ChallengerCall(p, repo)
  \/ \E p \in Procs : ChallengerLock(p)
  \/ \E p \in Procs : ChallengerGet(p)
  \/ \E p \in Procs : ChallengerPing(p)
  \/ \E p \in Procs : ChallengerUnlock(p)
  \/ \E p \in Procs : Finish(p)
  \/ UpstreamChanges

SpecAuth == InitAuth /\ [][NextAuth]_vars

(***************************************************************************)
(* The local blob store's upload, mount and delete operations              *)
(* (registry/storage/blob_test.go)                                         *)
(***************************************************************************)
Live_Forever(id) == uploads[id].state # "unused"
Live(id) == uploads[id].state \in {"open", "closed"}

\* A digest other than the content's, as a client may put in the descriptor
\* it commits with.
WrongDigest(buf) == IF buf = <<>> THEN FromBytes(<<0>>) ELSE digestSha256Empty

\* bs.Create(ctx): a new upload with a fresh id.
FreshId(id) == uploads[id].state = "unused" /\ \A j \in 1..(id - 1) : uploads[j].state # "unused"

Create(repo) ==
  /\ \E id \in UploadIds :
       /\ FreshId(id)
       /\ uploads' = [uploads EXCEPT ![id] = [state |-> "open", repo |-> repo, buf |-> <<>>]]
       /\ lastOp' = [op |-> "Create"]
  /\ UNCHANGED <<storeVars, schedVars, proxyVars, manifestVars,
                 publicVars>>

\* blobUpload.Write
Write(id, b) ==
  /\ uploads[id].state = "open"
  /\ Len(uploads[id].buf) < MaxLen
  /\ uploads' = [uploads EXCEPT ![id].buf = Append(@, b)]
  /\ lastOp' = [op |-> "Write"]
  /\ UNCHANGED <<storeVars, schedVars, proxyVars, manifestVars,
                 publicVars>>

\* blobUpload.Close
Close(id) ==
  /\ uploads[id].state = "open"
  /\ uploads' = [uploads EXCEPT ![id].state = "closed"]
  /\ lastOp' = [op |-> "Close"]
  /\ UNCHANGED <<storeVars, schedVars, proxyVars, manifestVars,
                 publicVars>>

\* bs.Resume(ctx, id): ErrBlobUploadUnknown unless the upload state exists.
ResumeResult(id) == IF Live(id) THEN "writer" ELSE "ErrBlobUploadUnknown"

Resume(id) ==
  /\ uploads' = [uploads EXCEPT ![id].state = IF Live(id) THEN "open" ELSE @]
  /\ lastOp' = [op |-> "Resume", result |-> ResumeResult(id)]
  /\ UNCHANGED <<storeVars, schedVars, proxyVars, manifestVars,
                 publicVars>>

\* blobUpload.Cancel: the upload state is removed.
Cancel(id) ==
  /\ Live(id)
  /\ uploads' = [uploads EXCEPT ![id] = [@ EXCEPT !.state = "cancelled", !.buf = <<>>]]
  /\ lastOp' = [op |-> "Cancel"]
  /\ UNCHANGED <<storeVars, schedVars, proxyVars, manifestVars,
                 publicVars>>

\* blobUpload.Commit(ctx, Descriptor{Digest: d}): the canonical descriptor,
\* or an error when the written bytes do not have the digest.
Commit(id, d) ==
  /\ Live(id)
  /\ LET u == uploads[id] IN
     IF CommitValid(u.buf, d)
     THEN /\ blobData' = DataAfterCommit(u.buf, d)
          /\ layers' = LayersAfterCommit(u.repo, u.buf, d)
          /\ descSvc' = DescSvcAfterCommit(u.buf, d)
          /\ uploads' = [uploads EXCEPT ![id] = [@ EXCEPT !.state = "committed", !.buf = <<>>]]
          /\ lastOp' = [op |-> "Commit", result |-> "ok"]
     ELSE /\ lastOp' = [op |-> "Commit", result |-> "ErrBlobInvalidDigest"]
          /\ UNCHANGED <<blobData, layers, descSvc, uploads>>
  /\ UNCHANGED <<deleteEnabled, autoDiscovery, schedVars, proxyVars, manifestVars,
                 publicVars>>

\* bs.Delete(ctx, d)
Delete(repo, d) ==
  /\ IF CanDelete(repo, d)
     THEN /\ layers' = LayersAfterDelete(repo, d)
          /\ descSvc' = DescSvcAfterDelete(d)
     ELSE UNCHANGED <<layers, descSvc>>
  /\ lastOp' = [op |-> "Delete",
                result |-> IF CanDelete(repo, d) THEN "ok"
                           ELSE IF ~deleteEnabled THEN "ErrUnsupported"
                           ELSE "ErrBlobUnknown"]
  /\ UNCHANGED <<blobData, deleteEnabled, autoDiscovery, uploads, schedVars,
                 proxyVars, manifestVars,
                 publicVars>>

\* Is the digest marked public=true in the descriptor cache.
IsPublic(d) == <<"public", "true">> \in descSvc[d].annotations

\* bs.Create(ctx, WithMount(d)): the blob is mounted, or an upload starts.
CreateWithMount(repo, d) ==
  /\ IF CanAutoMount(d)
     THEN /\ layers' = LayersAfterMount(repo, d)
          /\ lastOp' = [op |-> "CreateWithMount", result |-> "ErrBlobMounted"]
          /\ UNCHANGED uploads
     ELSE /\ \E id \in UploadIds :
               /\ FreshId(id)
               /\ uploads' = [uploads EXCEPT ![id] =
                    [state |-> "open", repo |-> repo, buf |-> <<>>]]
          /\ lastOp' = [op |-> "CreateWithMount", result |-> "writer"]
          /\ UNCHANGED layers
  /\ UNCHANGED <<blobData, descSvc, deleteEnabled, autoDiscovery, schedVars,
                 proxyVars, manifestVars,
                 publicVars>>

\* bs.Create(ctx, WithMountFrom(from@d))
CreateWithMountFrom(repo, from, d) ==
  /\ IF CanMountFrom(from, d)
     THEN /\ layers' = LayersAfterMountFrom(repo, from, d)
          /\ lastOp' = [op |-> "CreateWithMountFrom", result |-> "ErrBlobMountedFrom"]
          /\ UNCHANGED uploads
     ELSE /\ \E id \in UploadIds :
               /\ FreshId(id)
               /\ uploads' = [uploads EXCEPT ![id] =
                    [state |-> "open", repo |-> repo, buf |-> <<>>]]
          /\ lastOp' = [op |-> "CreateWithMountFrom", result |-> "writer"]
          /\ UNCHANGED layers
  /\ UNCHANGED <<blobData, descSvc, deleteEnabled, autoDiscovery, schedVars,
                 proxyVars, manifestVars,
                 publicVars>>

\* proxyingRegistry.setBlobsPublic: the startup scan enumerates the blobs of
\* the local namespace and calls setPublic on each.
SetBlobsPublicStep(d) ==
  /\ blobData[d] # NoBlob
  /\ \E dsErr \in BOOLEAN : descSvc' = setPublic(descSvc, d, dsErr).svc
  /\ lastOp' = [op |-> "setPublic"]
  /\ UNCHANGED <<blobData, layers, deleteEnabled, autoDiscovery, uploads,
                 schedVars, proxyVars, manifestVars,
                 publicVars>>

InitLocalStore ==
  /\ blobData = [d \in AllDigests |-> NoBlob]
  /\ layers = [k \in Keys |-> NoDesc]
  /\ descSvc = [d \in AllDigests |-> NoDesc]
  /\ uploads = NoUploads
  /\ lastOp = [op |-> "none"]
  /\ InitSched
  /\ InitProxy
  /\ InitManifests
  /\ InitPublic
  /\ deleteEnabled \in BOOLEAN
  /\ autoDiscovery \in BOOLEAN
  /\ upstreamHas = [d \in ProxyDigests |-> TRUE]
  /\ upstreamChallenge = "bearer"

\* The digests the operations are called with: those of the stored blobs and
\* one that may be absent.
Targets == {d \in AllDigests : blobData[d] # NoBlob} \cup {digestSha256Empty}

NextStore ==
  \/ \E repo \in Repos : Create(repo)
  \/ \E id \in UploadIds, b \in UploadBytes : Write(id, b)
  \/ \E id \in UploadIds : Close(id)
  \/ \E id \in UploadIds : Resume(id)
  \/ \E id \in UploadIds : Cancel(id)
  \/ \E id \in UploadIds :
       \E d \in {FromBytes(uploads[id].buf), WrongDigest(uploads[id].buf)} : Commit(id, d)
  \/ \E repo \in Repos, d \in Targets : Delete(repo, d)
  \/ \E repo \in Repos, d \in Targets : CreateWithMount(repo, d)
  \/ \E repo, from \in Repos, d \in Targets : CreateWithMountFrom(repo, from, d)
  \/ \E d \in Targets : SetBlobsPublicStep(d)

SpecStore == InitLocalStore /\ [][NextStore]_vars

(***************************************************************************)
(* C1  Of the concurrent ServeBlob(d) requests of one repository that find *)
(* d absent locally, whichever store Repository built for each of them,    *)
(* at most one fetches d from the upstream at a time and the others wait   *)
(* for it.  Each Repository call builds its own proxy blob store with its  *)
(* own single-flight map, so two requests both become leaders.             *)
(***************************************************************************)
C1_ExactlyOneUpstreamFetch ==
  \A p, q \in Procs :
    (p # q /\ req[p].repo = req[q].repo /\ Fetching(p, req[p].dgst))
    => ~Fetching(q, req[p].dgst)

(***************************************************************************)
(* C2  Stop() writes every entry with its expiry to the snapshot; Start()  *)
(* loads every entry of the snapshot with its kind and its original        *)
(* absolute expiry, armed with zero delay when the expiry has passed and   *)
(* with expiry - now otherwise; a timer fires only for an entry whose      *)
(* expiry has passed, and the firing invokes the entry's callback.         *)
(***************************************************************************)
C2_RestartKeepsExpiry ==
  [][/\ (sched.running /\ ~sched'.running)
        => \A k \in Keys :
             IF entries[k] = NoEntry THEN snapshot'[k] = NoEntry
             ELSE /\ snapshot'[k] # NoEntry
                  /\ snapshot'[k].kind = entries[k].kind
                  /\ snapshot'[k].expiry = entries[k].expiry
     /\ (~sched.running /\ sched'.running)
        => \A k \in Keys :
             snapshot[k] # NoEntry
             => /\ entries'[k] # NoEntry
                /\ entries'[k].kind = snapshot[k].kind
                /\ entries'[k].expiry = snapshot[k].expiry
                /\ entries'[k].timer =
                     IF snapshot[k].expiry <= now THEN now ELSE snapshot[k].expiry
     /\ \A k \in Keys :
          (sched.running /\ sched'.running /\ entries[k] # NoEntry
             /\ entries'[k] = NoEntry)
          => /\ entries[k].expiry <= now
             /\ cbs'[k] = CallbackFor(entries[k].kind)]_vars

\* After a restart one entry is armed again with its original, future expiry
\* and another, whose expiry passed while the proxy was down, is armed with
\* zero delay.
C2_Witness ==
  /\ sched.running
  /\ \E k1, k2 \in Keys :
       /\ entries[k1] # NoEntry /\ entries[k1].timer > entries[k1].expiry
       /\ entries[k2] # NoEntry /\ entries[k2].expiry > now
       /\ entries[k2].expiry < now + TTL
       /\ snapshot[k2] = entries[k2]

(***************************************************************************)
(* C3  When the expiry callback of the fired blob entry repo@b has run,    *)
(* Stat(b) on the repository's local store returns BlobUnknown and the     *)
(* scheduler holds no entry for repo@b.  With a registry built without     *)
(* EnableDelete the callback's Delete fails and the blob stays; and a      *)
(* request served between the firing and the callback adds the entry again.*)
(***************************************************************************)
C3_AfterExpiryAbsent ==
  [][\A k \in Keys :
       (cbs[k] # "none" /\ cbs'[k] = "none")
       => (LocalStat(k[1], k[2])' = ErrBlobUnknown /\ entries'[k] = NoEntry)]_vars

(***************************************************************************)
(* C4  In every reachable state, for every repository and digest: if the   *)
(* local Stat returns a descriptor, Open yields bytes whose recomputed     *)
(* digest is the digest asked for.                                         *)
(***************************************************************************)
C4_StatImpliesOpen ==
  \A repo \in Repos, d \in AllDigests :
    LocalStat(repo, d) # ErrBlobUnknown
    => /\ LocalOpen(repo, d) \notin {NoBlob, ErrPathNotFound}
       /\ FromBytes(LocalOpen(repo, d)) = d

(***************************************************************************)
(* C5  For every digest the local store holds the complete bytes of that   *)
(* digest or nothing: whatever Open returns for a digest, in any           *)
(* repository, is an error or the full content with that digest, and what  *)
(* Stat returns is the descriptor of the full content, also while a fetch  *)
(* is streaming, after a mismatch and after an abort.                      *)
(***************************************************************************)
C5_NoPartialBlob ==
  \A d \in AllDigests :
    /\ blobData[d] # NoBlob => (FromBytes(blobData[d]) = d /\ blobData[d] = Content(d))
    /\ \A repo \in Repos :
         /\ LocalOpen(repo, d) \in {NoBlob, ErrPathNotFound, Content(d)}
         /\ LocalStat(repo, d) # ErrBlobUnknown
            => LocalStat(repo, d) = Descriptor(d, Len(Content(d)))

\* A fetch delivered bytes of another digest, the write was cancelled and the
\* store holds nothing, while another fetch has written part of the blob.
C5_Witness ==
  \E p, q \in Procs :
    /\ req[p].pc = "done" /\ req[p].err = "DigestInvalid"
    /\ req[q].pc = "stream" /\ Len(req[q].wbuf) = 1
    /\ blobData[req[p].dgst] = NoBlob

(***************************************************************************)
(* C6  Put on the proxy manifest service returns the Unsupported error for *)
(* every repository, manifest and option set, and the local manifest store *)
(* and the scheduler entries are the same after it as before.              *)
(***************************************************************************)
C6_PutUnsupported ==
  [][\A repo \in Repos, m \in ManifestDigests, o \in BOOLEAN :
       ManifestPut(repo, m, o)
       => /\ lastPut' = "ErrUnsupported"
          /\ localManifests' = localManifests
          /\ entries' = entries]_vars

\* Put was refused while the proxy holds a cached manifest with a TTL entry.
C6_Witness ==
  /\ lastPut = "ErrUnsupported"
  /\ \E k \in ManifestKeys : k \in localManifests /\ entries[k] # NoEntry
  /\ \E k \in ManifestKeys : k \notin localManifests

(***************************************************************************)
(* C7  Committing an upload that holds the bytes B with B's digest         *)
(* succeeds with a descriptor D, D.digest = digest(B) and D.size = |B|,    *)
(* also for the zero-length B; after the commit Stat(D.digest) in the      *)
(* repository returns D and Open(D.digest) returns exactly B.              *)
(***************************************************************************)
C7_UploadRoundTrip ==
  [][\A id \in UploadIds, repo \in Repos, B \in Contents :
       (uploads[id].buf = B /\ uploads[id].repo = repo /\ Commit(id, FromBytes(B)))
       => /\ lastOp'.result = "ok"
          /\ LocalStat(repo, FromBytes(B))' # ErrBlobUnknown
          /\ LocalStat(repo, FromBytes(B))'.digest = FromBytes(B)
          /\ LocalStat(repo, FromBytes(B))'.size = Len(B)
          /\ LocalStat(repo, FromBytes(B))' = LayersAfterCommit(repo, B, FromBytes(B))[Key(repo, FromBytes(B))]
          /\ LocalOpen(repo, FromBytes(B))' = B]_vars

\* A blob of MaxLen bytes was committed and is read back, and the store holds
\* the zero-length blob under the digest of the empty content.
C7_Witness ==
  /\ lastOp = [op |-> "Commit", result |-> "ok"]
  /\ \E repo \in Repos, B \in Contents :
       /\ Len(B) = MaxLen
       /\ LocalStat(repo, FromBytes(B)) = Descriptor(FromBytes(B), MaxLen)
       /\ LocalOpen(repo, FromBytes(B)) = B
  /\ \E repo \in Repos :
       /\ LocalStat(repo, digestSha256Empty) = Descriptor(digestSha256Empty, 0)
       /\ LocalOpen(repo, digestSha256Empty) = <<>>

(***************************************************************************)
(* C8  When Create mounts digest d into repository R (WithMount or         *)
(* WithMountFrom), Stat in R returns the mounted descriptor, which equals  *)
(* the descriptor of every repository that held d, and Open in R returns   *)
(* bytes of digest d, the same bytes Open returns in those repositories.   *)
(***************************************************************************)
C8_MountReadableInBoth ==
  [][\A repo \in Repos, d \in AllDigests :
       (/\ lastOp'.op \in {"CreateWithMount", "CreateWithMountFrom"}
        /\ lastOp'.result \in {"ErrBlobMounted", "ErrBlobMountedFrom"}
        /\ (CreateWithMount(repo, d)
             \/ \E from \in Repos : CreateWithMountFrom(repo, from, d)))
       => /\ LocalStat(repo, d)' # ErrBlobUnknown
          /\ LocalStat(repo, d)'.digest = d
          /\ LocalOpen(repo, d)' \in Contents
          /\ FromBytes(LocalOpen(repo, d)') = d
          /\ \A o \in Repos :
               LocalStat(o, d) # ErrBlobUnknown
               => /\ LocalStat(o, d)' = LocalStat(o, d)
                  /\ LocalStat(repo, d)' = LocalStat(o, d)
                  /\ LocalOpen(o, d)' = LocalOpen(repo, d)']_vars

\* A non-empty blob uploaded to one repository was mounted into the other
\* and both repositories return the same descriptor and bytes.
C8_Witness ==
  /\ lastOp = [op |-> "CreateWithMount", result |-> "ErrBlobMounted"]
  /\ \E d \in AllDigests :
       /\ \A o \in Repos :
            /\ LocalStat(o, d) = Descriptor(d, Len(Content(d)))
            /\ LocalOpen(o, d) = Content(d)
       /\ Len(Content(d)) > 0
       /\ \E id \in UploadIds : uploads[id].state = "committed"

(***************************************************************************)
(* C9  A GET of digest d under a repository where d is absent, while d is  *)
(* cached under another repository with public=true, makes no upstream     *)
(* call, links d into the repository and answers with d's bytes.           *)
(***************************************************************************)
C9_AutoMountWithoutUpstream ==
  \A p \in Procs :
    req[p].cached
    => /\ ~req[p].up
       /\ req[p].pc = "done" => (req[p].mounted /\ req[p].resp = Content(req[p].dgst))

(***************************************************************************)
(* C10  Create(WithMount(d)) links d into the repository only if the       *)
(* descriptor cache knows d with the annotation public=true.  The local    *)
(* store mounts a blob that was committed and never marked public.         *)
(***************************************************************************)
C10_AutoMountOnlyPublic ==
  [][\A repo \in Repos, d \in AllDigests :
       (/\ lastOp' = [op |-> "CreateWithMount", result |-> "ErrBlobMounted"]
        /\ CreateWithMount(repo, d)
        /\ LocalStat(repo, d) = ErrBlobUnknown)
       => IsPublic(d)]_vars

C12_LinksIndependent ==
  [][\A repo \in Repos, d \in AllDigests :
       (Delete(repo, d) /\ deleteEnabled /\ LocalStat(repo, d) # ErrBlobUnknown)
       => /\ lastOp'.result = "ok"
          /\ LocalStat(repo, d)' = ErrBlobUnknown
          /\ \A o \in Repos \ {repo} : LocalStat(o, d)' = LocalStat(o, d)]_vars

\* The only blob ever uploaded was mounted into the other repository and
\* then deleted from the repository it was uploaded to: the target still
\* holds it.
C12_Witness ==
  /\ lastOp = [op |-> "Delete", result |-> "ok"]
  /\ \E id \in UploadIds :
       /\ uploads[id].state = "committed"
       /\ \A j \in UploadIds \ {id} : uploads[j].state = "unused"
       /\ \E d \in AllDigests :
            /\ LocalStat(uploads[id].repo, d) = ErrBlobUnknown
            /\ \E o \in Repos \ {uploads[id].repo} :
                 LocalStat(o, d) = Descriptor(d, Len(Content(d)))

(***************************************************************************)
(* C13  The life of an upload: Resume(id) returns a writer while the       *)
(* upload created by Create is open, also after Close; Cancel and a        *)
(* successful Commit remove the upload state, after which Resume(id)       *)
(* returns ErrBlobUploadUnknown; a cancelled or committed upload never     *)
(* becomes resumable again.                                                *)
(***************************************************************************)
C13_UploadLifecycle ==
  [][\A id \in UploadIds :
       /\ Resume(id)
          => /\ uploads[id].state \in {"open", "closed"}
                => (lastOp'.result = "writer" /\ uploads'[id].state = "open")
             /\ uploads[id].state \in {"cancelled", "committed"}
                => (lastOp'.result = "ErrBlobUploadUnknown" /\ uploads' = uploads)
       /\ Close(id) => uploads'[id].state = "closed"
       /\ Cancel(id) => uploads'[id].state = "cancelled"
       /\ (lastOp'.op = "Commit" /\ lastOp'.result = "ok"
             /\ \E d \in AllDigests : Commit(id, d))
          => uploads'[id].state = "committed"
       /\ uploads[id].state \in {"cancelled", "committed"}
          => uploads'[id].state = uploads[id].state]_vars

\* One upload was cancelled, the other was written, closed and committed,
\* and a Resume of one of them has just returned ErrBlobUploadUnknown.
C13_Witness ==
  /\ lastOp = [op |-> "Resume", result |-> "ErrBlobUploadUnknown"]
  /\ \E id, j \in UploadIds :
       /\ uploads[id].state = "cancelled"
       /\ uploads[j].state = "committed"
       /\ \E d \in AllDigests :
            Len(Content(d)) > 0 /\ LocalStat(uploads[j].repo, d) # ErrBlobUnknown

(***************************************************************************)
(* C14  Stat and Open of a digest that was never stored in the repository  *)
(* return ErrBlobUnknown: they do so initially and until a commit or a     *)
(* mount of the digest into that repository.  After a successful Delete(d) *)
(* Stat(d) and Open(d) return ErrBlobUnknown; a commit of the same content *)
(* makes Stat(d) and Open(d) succeed again; Delete on a registry built     *)
(* without delete enabled fails and removes nothing.                       *)
(***************************************************************************)
C14_StatOpenDeleteErrors ==
  /\ \A repo \in Repos, d \in AllDigests :
       LocalStat(repo, d) = ErrBlobUnknown /\ LocalOpen(repo, d) = NoBlob
  /\ [][\A repo \in Repos, d \in AllDigests :
          /\ (LocalStat(repo, d) = ErrBlobUnknown /\ LocalStat(repo, d)' # ErrBlobUnknown)
             => \/ \E id \in UploadIds : uploads[id].repo = repo /\ Commit(id, d)
                \/ CreateWithMount(repo, d)
                \/ \E from \in Repos : CreateWithMountFrom(repo, from, d)
          /\ LocalStat(repo, d)' = ErrBlobUnknown => LocalOpen(repo, d)' = NoBlob
          /\ (lastOp'.op = "Delete" /\ lastOp'.result = "ok" /\ Delete(repo, d))
             => (LocalStat(repo, d)' = ErrBlobUnknown /\ LocalOpen(repo, d)' = NoBlob)
          /\ \A id \in UploadIds :
               (/\ lastOp'.op = "Commit" /\ lastOp'.result = "ok"
                /\ uploads[id].repo = repo
                /\ Commit(id, d))
               => /\ LocalStat(repo, d)' = Descriptor(d, Len(uploads[id].buf))
                  /\ LocalOpen(repo, d)' = uploads[id].buf
          /\ (lastOp'.op = "Delete" /\ ~deleteEnabled /\ Delete(repo, d))
             => (lastOp'.result = "ErrUnsupported" /\ layers' = layers)]_vars

\* A blob was committed to a repository and deleted from it, and the same
\* content has been written and closed in a second upload to that
\* repository, ready to be committed again.
C14_Witness ==
  \E id, j \in UploadIds :
    /\ uploads[id].state = "committed"
    /\ uploads[j].state = "closed"
    /\ uploads[j].repo = uploads[id].repo
    /\ Len(uploads[j].buf) > 0
    /\ blobData[FromBytes(uploads[j].buf)] = uploads[j].buf
    /\ \A o \in Repos : LocalStat(o, FromBytes(uploads[j].buf)) = ErrBlobUnknown

(***************************************************************************)
(* C15  The scheduler holds at most one entry per key, of the kind the key *)
(* was added with.  AddBlob and AddManifest of a key that has an entry     *)
(* replace its expiry with now + TTL and rearm its timer, leaving every    *)
(* other entry alone, so a timer fires only when the entry's latest expiry *)
(* has passed and never at a superseded one; a callback is invoked only by *)
(* a firing, which removes the entry in the same step, hence at most once  *)
(* per entry.                                                              *)
(***************************************************************************)
C15_OneEntryPerKey ==
  [][\A k \in Keys :
       /\ (AddBlob(k) \/ AddManifest(k))
          => /\ entries'[k].expiry = now + TTL
             /\ entries'[k].timer = now + TTL
             /\ entries'[k].kind = IF AddBlob(k) THEN "blob" ELSE "manifest"
             /\ \A j \in Keys \ {k} : entries'[j] = entries[j]
             /\ cbs' = cbs
       /\ TimerFire(k)
          => /\ entries[k].expiry <= now
             /\ entries'[k] = NoEntry
             /\ fired'.expiry = entries[k].expiry
       /\ (cbs[k] = "none" /\ cbs'[k] # "none")
          => /\ entries[k] # NoEntry
             /\ entries[k].expiry <= now
             /\ entries'[k] = NoEntry
             /\ cbs'[k] = CallbackFor(entries[k].kind)
       /\ entries'[k] # NoEntry
          => entries'[k].kind = IF k \in BlobKeys THEN "blob" ELSE "manifest"]_vars

\* An entry whose earlier expiry was flushed to the snapshot, and is still
\* in the future, has been added again and now expires at now + TTL, while
\* the entry of another key has fired at its own expiry.
C15_Witness ==
  /\ sched.running
  /\ \E k \in BlobKeys :
       /\ entries[k] # NoEntry
       /\ entries[k].expiry = now + TTL
       /\ entries[k].timer = now + TTL
       /\ snapshot[k] # NoEntry
       /\ now < snapshot[k].expiry
       /\ snapshot[k].expiry < entries[k].expiry
       /\ fired.key \notin {k, <<"none", 0>>}
       /\ fired.expiry <= fired.at

(***************************************************************************)
(* C16  In every reachable state every cached blob present in the local    *)
(* store, linked into a repository with its data stored, has a scheduler   *)
(* entry for repo@digest, or is being handled by a request that has yet to *)
(* insert the entry, or its expiry callback is still running.  The entry   *)
(* is removed when the timer fires; when the callback's Delete then        *)
(* returns an error the callback returns, the blob stays and nothing       *)
(* inserts an entry for it.                                                *)
(***************************************************************************)
C16_CachedBlobScheduled ==
  \A repo \in Repos, d \in ProxyDigests :
    (LocalStat(repo, d) # ErrBlobUnknown /\ blobData[d] # NoBlob)
    => \/ entries[Key(repo, d)] # NoEntry
       \/ cbs[Key(repo, d)] # "none"
       \/ \E p \in Procs :
            /\ req[p].pc \notin {"idle", "done"}
            /\ req[p].repo = repo
            /\ req[p].dgst = d

C18_LocalHitRefreshesTTL ==
  [][\A repo \in Repos, d \in ProxyDigests :
       /\ \A p \in Procs :
            (/\ req[p].repo = repo /\ req[p].dgst = d
             /\ ServeBlobLocal(p)
             /\ blobData[d] # NoBlob)
            => /\ req'[p].resp = blobData[d]
               /\ ~req'[p].up /\ ~req'[p].fetched
               /\ entries'[Key(repo, d)] = Entry("blob", now + TTL, now + TTL)
               /\ entries'[Key(repo, d)].expiry >= entries[Key(repo, d)].expiry
       /\ (OnBlobExpireDelete(Key(repo, d)) /\ LocalStat(repo, d)' = ErrBlobUnknown)
          => ~(/\ entries[Key(repo, d)] # NoEntry
               /\ entries[Key(repo, d)].expiry > now)]_vars

(***************************************************************************)
(* C19  tryEstablishChallenges runs entirely under the challenger's mutex, *)
(* which all repositories share: a call between Lock and Unlock holds the  *)
(* mutex, so at most one call is past Lock and at most one ping is in      *)
(* flight.  A call that finds challenges known returns success without an  *)
(* upstream request; otherwise it issues one ping.  While a ping is in     *)
(* flight no challenges are known, and once a ping has registered a        *)
(* non-empty challenge set it stays and no later call pings again.         *)
(***************************************************************************)
C19_OnePingUnderMutex ==
  /\ [](/\ \A p \in Procs :
             req[p].pc \in {"cmGet", "cmPing", "cmRet"} <=> mutex = p
        /\ \A p, q \in Procs :
             (req[p].pc = "cmPing" /\ req[q].pc = "cmPing") => p = q
        /\ \A p \in Procs : req[p].pc = "cmPing" => cm = {})
  /\ [][/\ \A p \in Procs :
             /\ (ChallengerGet(p) /\ cm # {})
                => /\ req'[p].pc = "cmRet"
                   /\ ~req'[p].up
                   /\ req'[p].err \in {"none", "cmError"}
             /\ (ChallengerGet(p) /\ cm = {} /\ req'[p].err = "none")
                => (req'[p].pc = "cmPing" /\ req'[p].up)
             /\ (req[p].pc # "cmPing" /\ req'[p].pc = "cmPing")
                => (cm = {} /\ req[p].pc = "cmGet" /\ ~req[p].up)
             /\ (req[p].pc = "cmPing" /\ req'[p].pc # "cmPing")
                => req'[p].pc = "cmRet"
        /\ cm # {} => cm' = cm]_vars

\* A ping of one repository's call registered the upstream's challenge, and
\* a later call, made for the other repository while the first caller has
\* not yet returned to idle, found it known and is returning success
\* without having pinged.
C19_Witness ==
  \E p, q \in Procs :
    /\ req[p].pc = "done" /\ req[p].up /\ req[p].err = "none"
    /\ req[q].pc = "cmRet" /\ ~req[q].up /\ req[q].err = "none"
    /\ req[q].repo # req[p].repo
    /\ cm = {upstreamChallenge}
    /\ mutex = q

(***************************************************************************)
(* C20  The upstream's auth challenge is created lazily and replaced when  *)
(* the upstream asks for a new one: no challenge is known until a call's   *)
(* ping registers what the upstream answers; and a call of                 *)
(* tryEstablishChallenges made after the upstream changed its challenge    *)
(* pings the upstream, and the ping leaves the challenge manager holding   *)
(* the new challenge.  tryEstablishChallenges returns nil as soon as any   *)
(* challenge is known, so the old challenge stays.                         *)
(***************************************************************************)
C20_ChallengeReplaced ==
  [][/\ (cm = {} /\ cm' # {})
        => \E p \in Procs : ChallengerPing(p) /\ cm' = {upstreamChallenge}
     /\ \A p \in Procs :
          /\ (/\ ChallengerGet(p)
              /\ upstreamChallenge # "none"
              /\ cm # {}
              /\ upstreamChallenge \notin cm
              /\ req'[p].err = "none")
             => req'[p].pc = "cmPing"
          /\ (ChallengerPing(p) /\ req'[p].err = "none" /\ upstreamChallenge # "none")
             => cm' = {upstreamChallenge}]_vars

(***************************************************************************)
(* Startup: NewRegistryPullThroughCache, the scan it launches, and the     *)
(* setPublic calls of the scan and of the post-commit callback, one        *)
(* descriptor-service call at a time.                                      *)
(***************************************************************************)

\* The blobs cached by an earlier process: one-byte contents.
ScanDigests == {FromBytes(<<b>>) : b \in Byte}

\* What the descriptor cache may hold for such a blob when the process
\* begins: nothing, its descriptor, or its descriptor with a public annotation
\* of either value.
PriorDescriptors(d) ==
  {NoDesc, Descriptor(d, 1),
   [Descriptor(d, 1) EXCEPT !.annotations = {<<"public", "true">>}],
   [Descriptor(d, 1) EXCEPT !.annotations = {<<"public", "false">>}]}

\* The descriptor a setPublic call is about to read or overwrite.
CurrentDescriptor(d) == IF descSvc[d] = NoDesc THEN EmptyDescriptor ELSE descSvc[d]

\* s.OnBlobExpire(...), s.OnManifestExpire(...) in the constructor.
NewCallbacks ==
  /\ startup.pc = "new"
  /\ sched' = [sched EXCEPT !.callbacks = TRUE]
  /\ startup' = [startup EXCEPT !.pc = "start"]
  /\ UNCHANGED <<storeVars, uploadVars, entries, snapshot, now, cbs, fired,
                 proxyVars, manifestVars, calls>>

\* err = s.Start(); if err != nil { return nil, err }
NewStart ==
  /\ startup.pc = "start"
  /\ StartAllowed
  /\ \E ok \in BOOLEAN :
       IF ok
       THEN /\ entries' = EntriesAfterStart
            /\ sched' = [sched EXCEPT !.running = TRUE]
            /\ startup' = [startup EXCEPT !.pc = "auth"]
       ELSE /\ startup' = [startup EXCEPT !.pc = "failed"]
            /\ UNCHANGED <<entries, sched>>
  /\ UNCHANGED <<storeVars, uploadVars, snapshot, now, cbs, fired, proxyVars,
                 manifestVars, calls>>

\* cs, err := configureAuth(...); if err != nil { return nil, err }
NewConfigureAuth ==
  /\ startup.pc = "auth"
  /\ \E ok \in BOOLEAN :
       startup' = [startup EXCEPT !.pc = IF ok THEN "launch" ELSE "failed"]
  /\ UNCHANGED <<storeVars, uploadVars, schedVars, proxyVars, manifestVars,
                 calls>>

\* go p.setBlobsPublic(ctx); return &p, nil.  The scan is to enumerate every
\* blob of the local namespace.
NewLaunchScan ==
  /\ startup.pc = "launch"
  /\ startup' = [pc |-> "returned", scan |-> "run",
                 todo |-> {d \in AllDigests : blobData[d] # NoBlob}]
  /\ UNCHANGED <<storeVars, uploadVars, schedVars, proxyVars, manifestVars,
                 calls>>

\* Enumerate hands the next blob to the callback, which calls setPublic; with
\* no blob left Enumerate returns nil and the scan logs its counts.
ScanNext ==
  /\ startup.scan = "run"
  /\ calls["scan"].pc = "idle"
  /\ IF startup.todo = {}
     THEN /\ startup' = [startup EXCEPT !.scan = "done"]
          /\ UNCHANGED calls
     ELSE /\ \E d \in startup.todo :
               calls' = [calls EXCEPT !["scan"] = [NoCall EXCEPT !.pc = "stat", !.dgst = d]]
          /\ UNCHANGED startup
  /\ UNCHANGED <<storeVars, uploadVars, schedVars, proxyVars, manifestVars>>

\* The scan after an error of setPublic: the Enumerate callback returns the
\* error, which ends the enumeration, and the scan discards it.
ScanAfterError == [startup EXCEPT !.scan = "aborted"]

\* The Enumerate callback after setPublic returned.
ScanReturn ==
  /\ calls["scan"].pc = "ret"
  /\ startup' = IF calls["scan"].err
                THEN ScanAfterError
                ELSE [startup EXCEPT !.todo = startup.todo \ {calls["scan"].dgst}]
  /\ calls' = [calls EXCEPT !["scan"] = NoCall]
  /\ UNCHANGED <<storeVars, uploadVars, schedVars, proxyVars, manifestVars>>

\* The function returned by setBlobPublic is called after a commit.
SetBlobPublicCall(d) ==
  /\ startup.pc = "returned"
  /\ calls["commit"].pc = "idle"
  /\ blobData[d] # NoBlob
  /\ calls' = [calls EXCEPT !["commit"] = [NoCall EXCEPT !.pc = "stat", !.dgst = d]]
  /\ UNCHANGED <<storeVars, uploadVars, schedVars, proxyVars, manifestVars,
                 startup>>

\* ... it logs the outcome and returns nothing.
SetBlobPublicReturn ==
  /\ calls["commit"].pc = "ret"
  /\ calls' = [calls EXCEPT !["commit"] = NoCall]
  /\ UNCHANGED <<storeVars, uploadVars, schedVars, proxyVars, manifestVars,
                 startup>>

\* setPublic, first half: descriptorService.Stat and the test for the key.
SetPublicStat(c) ==
  /\ calls[c].pc = "stat"
  /\ \E dsErr \in BOOLEAN :
       LET r == setPublic(descSvc, calls[c].dgst, dsErr)
       IN calls' = [calls EXCEPT ![c] =
            IF r.err THEN [@ EXCEPT !.pc = "ret", !.err = TRUE]
            ELSE IF r.public
                 THEN [@ EXCEPT !.pc = "set", !.desc = r.svc[calls[c].dgst]]
                 ELSE [@ EXCEPT !.pc = "ret"]]
  /\ UNCHANGED <<storeVars, uploadVars, schedVars, proxyVars, manifestVars,
                 startup>>

\* setPublic, second half: descriptorService.SetDescriptor(ctx, dgst, desc)
\* with the descriptor read in the first half.
SetPublicSet(c) ==
  /\ calls[c].pc = "set"
  /\ \E dsErr \in BOOLEAN :
       IF dsErr
       THEN /\ calls' = [calls EXCEPT ![c] = [@ EXCEPT !.pc = "ret", !.err = TRUE]]
            /\ UNCHANGED descSvc
       ELSE /\ descSvc' = [descSvc EXCEPT ![calls[c].dgst] = calls[c].desc]
            /\ calls' = [calls EXCEPT ![c] = [@ EXCEPT !.pc = "ret", !.public = TRUE]]
  /\ UNCHANGED <<blobData, layers, deleteEnabled, autoDiscovery, uploads, lastOp,
                 schedVars, proxyVars, manifestVars, startup>>

\* A registry over a store that an earlier process filled, its proxy not yet
\* constructed.
InitStartup ==
  /\ blobData = [d \in AllDigests |-> IF d \in ScanDigests THEN Content(d) ELSE NoBlob]
  /\ layers = [k \in Keys |->
                 IF k[1] = "foo" /\ k[2] \in ScanDigests
                 THEN Descriptor(k[2], 1) ELSE NoDesc]
  /\ \E prior \in [ScanDigests -> UNION {PriorDescriptors(d) : d \in ScanDigests}] :
       /\ \A d \in ScanDigests : prior[d] \in PriorDescriptors(d)
       /\ descSvc = [d \in AllDigests |->
                      IF d \in ScanDigests THEN prior[d] ELSE NoDesc]
  /\ uploads = NoUploads
  /\ lastOp = [op |-> "none"]
  /\ deleteEnabled = TRUE
  /\ autoDiscovery = TRUE
  /\ entries = [k \in Refs |-> NoEntry]
  /\ snapshot = [k \in Refs |-> NoEntry]
  /\ sched = [running |-> FALSE, callbacks |-> FALSE]
  /\ now = 0
  /\ cbs = [k \in Refs |-> "none"]
  /\ fired = NoFire
  /\ InitProxy
  /\ upstreamHas = [d \in ProxyDigests |-> TRUE]
  /\ upstreamChallenge = "bearer"
  /\ InitManifests
  /\ startup = [pc |-> "new", scan |-> "off", todo |-> {}]
  /\ calls = [c \in SetPublicCallers |-> NoCall]

NextStartup ==
  \/ NewCallbacks
  \/ NewStart
  \/ NewConfigureAuth
  \/ NewLaunchScan
  \/ ScanNext
  \/ ScanReturn
  \/ \E d \in ScanDigests : SetBlobPublicCall(d)
  \/ SetBlobPublicReturn
  \/ \E c \in SetPublicCallers : SetPublicStat(c)
  \/ \E c \in SetPublicCallers : SetPublicSet(c)
  \/ \E d \in ScanDigests : DeleteBlob("foo", d)

SpecStartup == InitStartup /\ [][NextStartup]_vars

\* C21: the startup scan is launched only by a constructor whose scheduler
\* started and whose auth configuration succeeded, and once the scan has
\* ended no blob cached before the process began is left without the
\* public=true annotation for want of a visit.
C21_ScanMarksEveryBlob ==
  /\ startup.scan # "off" => sched.running /\ startup.pc = "returned"
  /\ startup.pc = "failed" => startup.scan = "off"
  /\ startup.scan \in {"done", "aborted"} =>
       \A d \in startup.todo : IsPublic(d)

\* C26: setPublic(d) writes and returns true exactly when the descriptor
\* service answers without error and d's current descriptor (the empty one
\* when d is unknown) has no "public" key; the written descriptor then has the
\* annotations {public: true} and the digest, size and media type it had, and
\* no other digest's descriptor changes.  With the key present, whatever its
\* value, and on a descriptor-service error nothing is written and false is
\* returned, the error with it.  A second call after a successful one writes
\* nothing and returns false.
C26_SetPublicIdempotent ==
  \A d \in AllDigests, dsErr \in BOOLEAN :
    LET cur == CurrentDescriptor(d)
        r == setPublic(descSvc, d, dsErr)
        again == setPublic(r.svc, d, FALSE)
    IN /\ r.err = dsErr
       /\ r.public = (~dsErr /\ "public" \notin AnnotationKeys(cur))
       /\ ~r.public => r.svc = descSvc
       /\ r.public =>
            /\ r.svc[d] = [cur EXCEPT !.annotations = {<<"public", "true">>}]
            /\ \A e \in AllDigests \ {d} : r.svc[e] = descSvc[e]
       /\ ~dsErr => ~again.public /\ ~again.err /\ again.svc = r.svc

\* A setPublic call has written {public: true} for one blob and returned true,
\* while another blob's descriptor carries the key with the value "false".
C26_Witness ==
  \E c \in SetPublicCallers, d, e \in ScanDigests :
    /\ calls[c].pc = "ret" /\ calls[c].public /\ calls[c].dgst = d
    /\ descSvc[d].annotations = {<<"public", "true">>}
    /\ descSvc[e].annotations = {<<"public", "false">>}
    /\ ~setPublic(descSvc, e, FALSE).public

\* C27: the read-then-write of setPublic loses no update: whenever a setPublic
\* call writes d's descriptor, the descriptor after the write is public=true
\* and has the digest, size and media type of the descriptor it replaces, as
\* it would had the call run with no other writer in between.
C27_NoLostUpdate ==
  [][\A c \in SetPublicCallers, d \in ScanDigests :
       (calls[c].pc = "set" /\ calls[c].dgst = d /\ calls'[c].public)
       => /\ <<"public", "true">> \in descSvc'[d].annotations
          /\ descSvc'[d].digest = CurrentDescriptor(d).digest
          /\ descSvc'[d].size = CurrentDescriptor(d).size
          /\ descSvc'[d].mediaType = CurrentDescriptor(d).mediaType]_vars

\* A proxy whose store holds, from an earlier fetch into "foo", a blob that the
\* upstream may have removed since; the descriptor cache knows it, annotated
\* public or not, or has lost it.
InitGetBlob ==
  /\ blobData = [d \in AllDigests |-> IF d \in ProxyDigests THEN Content(d) ELSE NoBlob]
  /\ layers = [k \in Keys |->
                 IF k[1] = "foo" /\ k[2] \in ProxyDigests
                 THEN Descriptor(k[2], Len(Content(k[2]))) ELSE NoDesc]
  /\ \E known, public \in BOOLEAN :
       descSvc = [d \in AllDigests |->
                    IF d \in ProxyDigests /\ known
                    THEN [Descriptor(d, Len(Content(d))) EXCEPT
                            !.annotations = IF public THEN {<<"public", "true">>} ELSE {}]
                    ELSE NoDesc]
  /\ uploads = NoUploads
  /\ lastOp = [op |-> "none"]
  /\ entries = [k \in Refs |->
                  IF k[1] = "foo" /\ k[2] \in ProxyDigests
                  THEN Entry("blob", TTL, TTL) ELSE NoEntry]
  /\ snapshot = entries
  /\ sched = [running |-> TRUE, callbacks |-> TRUE]
  /\ now = 0
  /\ cbs = [k \in Refs |-> "none"]
  /\ fired = NoFire
  /\ InitProxy
  /\ InitManifests
  /\ InitPublic
  /\ deleteEnabled = TRUE
  /\ autoDiscovery \in BOOLEAN
  /\ upstreamHas \in [ProxyDigests -> BOOLEAN]
  /\ upstreamChallenge = "bearer"

SpecGetBlob == InitGetBlob /\ [][Next]_vars

\* C22: GetBlob goes on to ServeBlob exactly after a Stat that succeeded or
\* after a Stat that returned ErrBlobUnknown followed by a Create that failed
\* with ErrBlobMounted, in both cases with the requested digest (the digest of
\* the descriptor Stat returns).  After ErrBlobUnknown and any other outcome of
\* Create the response records BlobUnknown and ServeBlob is not called; after
\* any other Stat error it records Unknown and neither Create nor ServeBlob is
\* called.  Create is attempted only after Stat returned ErrBlobUnknown.
C22_GetBlobServes ==
  [][\A p \in Procs, repo \in Repos, d \in AllDigests :
       (req[p].repo = repo /\ req[p].dgst = d /\ req'[p] # req[p])
       => /\ req[p].pc = "stat" =>
               /\ layers' = layers
               /\ \/ /\ req'[p].pc = "serve"
                     /\ req'[p].dgst = d /\ req'[p].err = "none" /\ ~req'[p].mounted
                     /\ LocalStat(repo, d) # ErrBlobUnknown \/ upstreamHas[d]
                  \/ /\ req'[p].pc = "create"
                     /\ LocalStat(repo, d) = ErrBlobUnknown /\ ~upstreamHas[d]
                  \/ /\ req'[p].pc = "done" /\ req'[p].err = "Unknown"
                     /\ LocalStat(repo, d) = ErrBlobUnknown
          /\ req[p].pc = "create" =>
               \/ /\ req'[p].pc = "serve"
                  /\ req'[p].dgst = d /\ req'[p].err = "none" /\ req'[p].mounted
                  /\ CanAutoMount(d)
                  /\ layers' = LayersAfterMount(repo, d)
               \/ /\ req'[p].pc = "done" /\ req'[p].err = "BlobUnknown"
                  /\ layers' = layers
          /\ req'[p].pc = "create" => req[p].pc = "stat"]_vars

\* One request is about to serve a blob that Create has just mounted while
\* another has ended with the Unknown error code after a failed Stat.
C22_Witness ==
  \E p, q \in Procs :
    /\ req[p].pc = "serve" /\ req[p].mounted
    /\ LocalStat(req[p].repo, req[p].dgst) # ErrBlobUnknown
    /\ req[q].pc = "done" /\ req[q].err = "Unknown"

\* C25: a tryEstablishChallenges call that fails, in GetChallenges or in the
\* ping, returns that error and leaves the challenge manager as it was; every
\* return, the early "challenges known" one included, releases the mutex, so
\* that with no call between Lock and Unlock the mutex is free and a waiting
\* caller can take it; and as a failed ping leaves no challenge known, the next
\* call that GetChallenges answers pings again.
C25_FailureReleasesMutex ==
  /\ [](/\ (\A p \in Procs : req[p].pc \notin {"cmGet", "cmPing", "cmRet"})
           => /\ mutex = "none"
              /\ \A q \in Procs : req[q].pc = "cmLock" => ENABLED ChallengerLock(q)
        /\ \A p \in Procs :
             (req[p].pc \in {"cmRet", "done"} /\ req[p].err = "pingError" /\ mutex = p)
             => cm = {})
  /\ [][\A p \in Procs :
          /\ (req[p].pc \in {"cmGet", "cmPing"} /\ req'[p].pc = "cmRet"
              /\ req'[p].err # "none")
             => /\ cm' = cm
                /\ req'[p].err = IF req[p].pc = "cmGet" THEN "cmError" ELSE "pingError"
          /\ ChallengerUnlock(p)
             => (mutex' = "none" /\ req'[p].err = req[p].err /\ cm' = cm)
          /\ (ChallengerGet(p) /\ cm = {} /\ req'[p].err = "none")
             => req'[p].pc = "cmPing"]_vars

\* A call whose ping failed has returned its error, and another caller has
\* since taken the mutex and is pinging the upstream again.
C25_Witness ==
  \E p, q \in Procs :
    /\ req[p].pc = "done" /\ req[p].err = "pingError"
    /\ req[q].pc = "cmPing" /\ mutex = q /\ cm = {}

(***************************************************************************)
(* The expiry callbacks of NewRegistryPullThroughCache on a scheduler      *)
(* whose state file holds entries of an earlier process                    *)
(***************************************************************************)
\* The store holds the proxied blob under both repositories and a manifest
\* under "foo"; the state file has an entry for each of them and one for a
\* reference without digest; the scheduler is new.
InitCallbacks ==
  /\ blobData = [d \in AllDigests |->
       IF d \in ProxyDigests THEN Content(d) ELSE NoBlob]
  /\ layers = [k \in Keys |->
       IF k \in BlobKeys THEN Descriptor(k[2], Len(Content(k[2]))) ELSE NoDesc]
  /\ descSvc = [d \in AllDigests |->
       IF d \in ProxyDigests THEN Descriptor(d, Len(Content(d))) ELSE NoDesc]
  /\ uploads = NoUploads
  /\ lastOp = [op |-> "none"]
  /\ entries = [k \in Refs |-> NoEntry]
  /\ \E kind \in {"blob", "manifest"}, e \in 1..TTL :
       snapshot = [k \in Refs |->
         IF k \in BlobKeys THEN Entry("blob", 1, 1)
         ELSE IF k \in {Key("foo", m) : m \in ManifestDigests} THEN Entry("manifest", e, e)
         ELSE IF k \in NonCanonical THEN Entry(kind, 1, 1)
         ELSE NoEntry]
  /\ sched = [running |-> FALSE, callbacks |-> FALSE]
  /\ now = 0
  /\ cbs = [k \in Refs |-> "none"]
  /\ fired = NoFire
  /\ InitProxy
  /\ localManifests = {Key("foo", m) : m \in ManifestDigests}
  /\ lastPut = "none"
  /\ InitPublic
  /\ deleteEnabled \in BOOLEAN
  /\ autoDiscovery = TRUE
  /\ upstreamHas = [d \in ProxyDigests |-> TRUE]
  /\ upstreamChallenge = "bearer"

NextCallbacks ==
  \/ RegisterCallbacks
  \/ SchedulerStart
  \/ Tick
  \/ \E k \in Refs : TimerFire(k)
  \/ \E k \in Refs : OnBlobExpireDelete(k)
  \/ \E k \in Refs : OnBlobExpireVacuum(k)
  \/ \E k \in Refs : OnManifestExpire(k)
  \/ \E k \in BlobKeys : DeleteBlob(k[1], k[2])

SpecCallbacks == InitCallbacks /\ [][NextCallbacks]_vars

\* C28: the scheduler is started only with both callbacks registered.  A
\* callback given a reference that is not canonical returns without deleting
\* anything.  The blob callback deletes the digest from the referenced
\* repository first and goes on to the vacuum's RemoveBlob only if that delete
\* succeeded; blob data is removed by nothing else.  The manifest callback
\* removes the referenced manifest only and leaves the blob store as it is.
C28_CallbacksCanonicalOrdered ==
  [][/\ (~sched.running /\ sched'.running) => sched.callbacks
     /\ \A k \in Refs :
          /\ (cbs[k] # "none" /\ cbs'[k] # cbs[k] /\ ~Canonical(k))
             => /\ cbs'[k] = "none"
                /\ storeVars' = storeVars
                /\ localManifests' = localManifests
          /\ (cbs'[k] = "blobVacuum" /\ cbs[k] # "blobVacuum")
             => /\ cbs[k] = "blobDelete"
                /\ Canonical(k)
                /\ layers[k] # NoDesc
                /\ layers'[k] = NoDesc
                /\ blobData' = blobData
          /\ (cbs[k] = "blobDelete" /\ cbs'[k] = "none")
             => (blobData' = blobData /\ layers' = layers)
          /\ (cbs[k] = "manifestDelete" /\ cbs'[k] # cbs[k])
             => /\ cbs'[k] = "none"
                /\ storeVars' = storeVars
                /\ localManifests' =
                     IF Canonical(k) THEN localManifests \ {k} ELSE localManifests
     /\ blobData' # blobData
        => \E k \in Keys :
             /\ cbs[k] = "blobVacuum" /\ cbs'[k] = "none"
             /\ blobData' = RemoveBlob(k[2])]_vars

\* The blob callback has removed the blob and the manifest callback the
\* manifest; the timer of the reference without digest fired last and its
\* callback has returned.
C28_Witness ==
  /\ fired.key \in NonCanonical
  /\ cbs[fired.key] = "none"
  /\ \E d \in ProxyDigests : blobData[d] = NoBlob
  /\ localManifests = {}
  /\ \E k \in BlobKeys : layers[k] # NoDesc

ServeBlobStep(p) ==
  \/ ServeBlobLocal(p)
  \/ ServeBlobMiss(p)
  \/ FetchOpen(p)
  \/ StreamByte(p)
  \/ StreamAbort(p)
  \/ StreamEOF(p)
  \/ SetPublicStep(p)
  \/ ScheduleStep(p)

NextFlight ==
  \/ \E p \in Procs, repo \in Repos, d \in ProxyDigests : ServeBlobDirect(p, repo, d)
  \/ \E p \in Procs : ServeBlobStep(p)
  \/ \E p \in Procs : Finish(p)

\* The goroutine of a request is scheduled again and again, and the read of
\* the upstream's response ends with a byte, with EOF or with an error.
SpecFlight ==
  Init /\ [][NextFlight]_vars /\ \A p \in Procs : WF_vars(ServeBlobStep(p))

\* C24: a caller waiting on an in-flight fetch is eventually signalled and the
\* single-flight map entry eventually removed.  A waiter leaves its wait only
\* when the leader of the fetch of its store and digest completes, and then
\* the map entry is gone: after a successful fetch the blob is in the local
\* store for the waiter's retry, after a failed or cancelled fetch the waiter
\* ends with the fetch-failed result.  A request at the local path of a blob
\* that is cached is eventually answered with the blob's bytes.
C24_WaitersSignalled ==
  /\ \A q \in Procs : (req[q].pc = "wait") ~> (req[q].pc # "wait")
  /\ \A s \in StoreIds, d \in ProxyDigests : InFlight(s, d) ~> ~InFlight(s, d)
  /\ \A q \in Procs, repo \in Repos, d \in ProxyDigests :
       (req[q].pc = "serve" /\ req[q].repo = repo /\ req[q].dgst = d
        /\ LocalStat(repo, d) # ErrBlobUnknown)
       ~> (req[q].pc = "done" /\ req[q].dgst = d /\ req[q].resp = Content(d))
  /\ [][\A q \in Procs, s \in StoreIds, repo \in Repos, d \in ProxyDigests :
          (req[q].pc = "wait" /\ req'[q].pc # "wait" /\ req[q].store = s
           /\ req[q].repo = repo /\ req[q].dgst = d)
          => /\ d \notin inflight'[s]
             /\ \E p \in Procs \ {q} :
                  /\ Fetching(p, d) /\ req[p].store = s
                  /\ req'[p].pc = "done"
                  /\ \/ /\ req'[p].err = "none"
                        /\ req'[q].pc = "serve"
                        /\ layers'[Key(repo, d)] # NoDesc
                        /\ blobData'[d] = Content(d)
                     \/ /\ req'[p].err # "none"
                        /\ req'[q].pc = "done"
                        /\ req'[q].err = "FetchFailed"]_vars

\* A waiter has ended with the fetch-failed result after the leader's fetch
\* was cancelled in mid-stream, and the map entry is gone.
C24_Witness ==
  \E p, q \in Procs :
    /\ req[q].pc = "done" /\ req[q].err = "FetchFailed" /\ ~req[q].fetched
    /\ req[p].pc = "done" /\ req[p].err = "Aborted"
    /\ req[p].store = req[q].store /\ req[p].dgst = req[q].dgst
    /\ ~InFlight(req[q].store, req[q].dgst)

====
